---- MODULE Spec2Model ----
(***************************************************************************)
(* WireGuard management edge function (supabase/functions/wireguard-       *)
(* manager/index.ts): the record store (wireguard_peers, wireguard_server),*)
(* the live interface behind `wg show wg0` / `wg set wg0`, the status      *)
(* parsers and the request handlers, as a state machine.                   *)
(*                                                                         *)
(* Encoding of JavaScript and SQL values:                                  *)
(*   - a JS object is a function whose DOMAIN is the set of properties     *)
(*     that were assigned; a property that was never assigned (undefined)  *)
(*     is not in the DOMAIN;                                               *)
(*   - a nullable value (a SQL column, or the string|null result of        *)
(*     parseHandshakeTime) is <<>> for null and <<v>> for the value v;     *)
(*   - a timestamp is a whole number of seconds;                           *)
(*   - the created_at and updated_at columns, which no handler reads, are  *)
(*     left out of the rows;                                               *)
(*   - a text is the sequence of its whitespace-separated words, a word    *)
(*     being a number [n |-> 21, w |-> ""] or a string [n |-> 0, w |-> s]. *)
(***************************************************************************)
EXTENDS Integers, Sequences, FiniteSets, TLC

(***************************************************************************)
(* Bounds of the model.                                                    *)
(***************************************************************************)
\* rows the wireguard_peers table may ever hold (ids are never reused)
MaxPeers == 2
\* steps of the clock, of 100 seconds each
MaxTicks == 1
\* handshakes (each with some traffic) a live peer may complete
MaxTraffic == 1
\* requests served where a sync pass interleaves with create and delete
MaxRequests == 2
\* the oldest handshake, in seconds, whose text the parsers are given
MaxAge == 250
\* lines of a status report given to the parser on its own
MaxLines == 4
\* the largest whole number of a transfer amount
MaxWhole == 1023

(***************************************************************************)
(* Values.                                                                 *)
(***************************************************************************)
Null == <<>>
Some(v) == <<v>>

\* JS: obj.prop is defined
Has(obj, prop) == prop \in DOMAIN obj

\* JS: { ...obj, prop: val }
With(obj, prop, val) == (prop :> val) @@ obj

\* a text's words
Num(n) == [n |-> n, w |-> ""]
Word(s) == [n |-> 0, w |-> s]
IsNum(tok) == tok.w = ""

RECURSIVE SumOver(_, _)
SumOver(f, S) ==
  IF S = {} THEN 0
  ELSE LET x == CHOOSE y \in S : TRUE IN f[x] + SumOver(f, S \ {x})

Min(S) == CHOOSE x \in S : \A y \in S : x <= y

(***************************************************************************)
(* parseHandshakeTime and isRecentHandshake.                               *)
(***************************************************************************)
\* handshakeText.includes('Never') || handshakeText.includes('never')
IncludesNever(text) == \E i \in 1..Len(text) : text[i].w \in {"Never", "never"}

\* the words (second|minute|hour|day)s? of the pattern, and the unit of each
UnitOfWord(w) ==
  CASE w \in {"second", "seconds"} -> "second"
    [] w \in {"minute", "minutes"} -> "minute"
    [] w \in {"hour", "hours"} -> "hour"
    [] w \in {"day", "days"} -> "day"
    [] OTHER -> "none"

\* where /(\d+)\s+<unit>s?\s+ago/ matches, for <unit> among units: a number, then
\* the unit word itself (a word with a comma after it is another word), then "ago"
MatchesAt(text, units) ==
  { i \in 1..(Len(text) - 2) :
      /\ IsNum(text[i])
      /\ UnitOfWord(text[i + 1].w) \in units
      /\ text[i + 2].w = "ago" }

SecondsPerUnit(unit) ==
  CASE unit = "second" -> 1
    [] unit = "minute" -> 60
    [] unit = "hour" -> 3600
    [] unit = "day" -> 86400
    [] OTHER -> 0

\* the loop of parseHandshakeTime over timeMatch
TotalSeconds(text) ==
  LET timeMatch == MatchesAt(text, {"second", "minute", "hour", "day"})
      secs == [i \in timeMatch |->
                 text[i].n * SecondsPerUnit(UnitOfWord(text[i + 1].w))]
  IN SumOver(secs, timeMatch)

parseHandshakeTime(handshakeText, now) ==
  IF IncludesNever(handshakeText) THEN Null
  ELSE IF MatchesAt(handshakeText, {"second", "minute", "hour", "day"}) # {}
       THEN Some(now - TotalSeconds(handshakeText))
       ELSE Null

isRecentHandshake(handshakeText) ==
  IF IncludesNever(handshakeText) THEN FALSE
  ELSE LET secondMatch == MatchesAt(handshakeText, {"second"})
           minuteMatch == MatchesAt(handshakeText, {"minute"})
       IN IF secondMatch # {}
          THEN handshakeText[Min(secondMatch)].n <= 180
          ELSE IF minuteMatch # {}
               THEN handshakeText[Min(minuteMatch)].n <= 3
               ELSE FALSE

(***************************************************************************)
(* parseTransferAmount.  A transfer text is [value100, unit]: the number,  *)
(* in hundredths (wg prints two decimals), and the unit word.  The code    *)
(* computes in JavaScript numbers, which hold whole numbers exactly up to  *)
(* 2^53; a tebibyte amount is beyond the integers of the model checker, so *)
(* the amount is computed as a wide number: its base-10^6 digits, lowest   *)
(* first, no leading zero digit, zero being the empty sequence.            *)
(***************************************************************************)
Limb == 1000000

RECURSIVE WideOf(_)
WideOf(n) == IF n = 0 THEN <<>> ELSE <<n % Limb>> \o WideOf(n \div Limb)

RECURSIVE WideTimesCarry(_, _, _)
WideTimesCarry(w, m, carry) ==
  IF w = <<>> THEN WideOf(carry)
  ELSE LET p == Head(w) * m + carry
       IN <<p % Limb>> \o WideTimesCarry(Tail(w), m, p \div Limb)

\* w * m, for 0 <= m <= 2000
WideTimes(w, m) == IF m = 0 THEN <<>> ELSE WideTimesCarry(w, m, 0)

RECURSIVE WideProduct(_, _)
WideProduct(w, factors) ==
  IF factors = <<>> THEN w
  ELSE WideProduct(WideTimes(w, Head(factors)), Tail(factors))

RECURSIVE WideTrim(_)
WideTrim(w) ==
  IF w # <<>> /\ w[Len(w)] = 0 THEN WideTrim(SubSeq(w, 1, Len(w) - 1)) ELSE w

RECURSIVE WideDivRem(_, _, _)
WideDivRem(w, d, rem) ==
  IF w = <<>> THEN <<>>
  ELSE LET cur == rem * Limb + w[Len(w)]
       IN Append(WideDivRem(SubSeq(w, 1, Len(w) - 1), d, cur % d), cur \div d)

\* Math.floor(w / d), for 0 < d <= 2000
WideFloorDiv(w, d) == WideTrim(WideDivRem(w, d, 0))

\* a wide number below 2^31 as an integer
RECURSIVE Narrow(_)
Narrow(w) == IF w = <<>> THEN 0 ELSE Head(w) + Limb * Narrow(Tail(w))

\* a variant: a table that reads the decimal units as binary ones
MultiplierAllBinary(unit) ==
  CASE unit \in {"KiB", "KB"} -> <<1024>>
    [] unit \in {"MiB", "MB"} -> <<1024, 1024>>
    [] unit \in {"GiB", "GB"} -> <<1024, 1024, 1024>>
    [] unit \in {"TiB", "TB"} -> <<1024, 1024, 1024, 1024>>
    [] OTHER -> <<1>>

\* multipliers[unit] || 1, as the factors of the product the code writes
Multiplier(unit) ==
  CASE unit = "B" -> <<1>>
    [] unit = "KiB" -> <<1024>>
    [] unit = "MiB" -> <<1024, 1024>>
    [] unit = "GiB" -> <<1024, 1024, 1024>>
    [] unit = "TiB" -> <<1024, 1024, 1024, 1024>>
    [] unit = "KB" -> <<1000>>
    [] unit = "MB" -> <<1000, 1000>>
    [] unit = "GB" -> <<1000, 1000, 1000>>
    [] unit = "TB" -> <<1000, 1000, 1000, 1000>>
    [] OTHER -> <<1>>

\* what /([\d.]+)\s*([KMGT]?i?B)/ accepts as the unit
UnitPatternWords ==
  {"B", "iB"} \cup { p \o s : p \in {"K", "M", "G", "T"}, s \in {"B", "iB"} }

\* the amount, wide
parseTransferAmountWide(transferText) ==
  IF transferText.unit \notin UnitPatternWords THEN <<>>
  ELSE WideFloorDiv(WideProduct(WideOf(transferText.value100),
                                Multiplier(transferText.unit)), 100)

\* the amount as an integer, for the amounts of the reports
parseTransferAmount(transferText) == Narrow(parseTransferAmountWide(transferText))

(***************************************************************************)
(* Variants of the definitions below, each with one deliberate fault: a    *)
(* property that holds of the code must fail when the variant takes the    *)
(* definition's place.                                                     *)
(***************************************************************************)
\* a fallback whose first peer's receive counter grows with the clock
getMockWireGuardStatusCounting(now) ==
  [ interface |-> <<[name |-> "wg0",
                     publicKey |-> "xCi3cBO9Azd7L1jkKUWUVZNC2uEH7HTPY+05GrMkOUE=",
                     listenPort |-> 51820]>>,
    peers |->
      ("mock_peer_key_1" :>
         [ publicKey |-> "mock_peer_key_1", status |-> "connected",
           endpoint |-> "192.168.1.100:51820", allowedIps |-> "10.7.0.2/32",
           lastHandshake |-> <<now - 90>>, transferRx |-> 1248 + now,
           transferTx |-> 2456 ])
      @@
      ("mock_peer_key_2" :>
         [ publicKey |-> "mock_peer_key_2", status |-> "disconnected",
           endpoint |-> "192.168.1.101:51820", allowedIps |-> "10.7.0.3/32",
           lastHandshake |-> <<now - 300>>, transferRx |-> 5670,
           transferTx |-> 8900 ]) ]

\* an update that adds the new receive counter to the stored one
UpdateByIdAdding(table, id, data) ==
  IF id \in DOMAIN table
  THEN [table EXCEPT ![id] =
          (IF "transfer_rx" \in DOMAIN data
           THEN [transfer_rx |-> table[id].transfer_rx + data.transfer_rx]
           ELSE [x \in {} |-> x])
          @@ data @@ table[id]]
  ELSE table

\* an update that makes the row when it is not there
UpdateByIdUpserting(table, id, data) ==
  IF id \in DOMAIN table
  THEN [table EXCEPT ![id] = data @@ table[id]]
  ELSE (id :> data) @@ table

\* updateData that keeps a peer the snapshot does not list as never connected
UpdateDataNeverConnected(wgStatus, dbPeer) ==
  IF dbPeer.public_key \in DOMAIN wgStatus.peers
  THEN LET wgPeer == wgStatus.peers[dbPeer.public_key]
       IN [ status |-> wgPeer.status,
            last_handshake |->
              IF "lastHandshake" \in DOMAIN wgPeer THEN wgPeer.lastHandshake ELSE <<>>,
            transfer_rx |->
              IF "transferRx" \in DOMAIN wgPeer THEN wgPeer.transferRx ELSE 0,
            transfer_tx |->
              IF "transferTx" \in DOMAIN wgPeer THEN wgPeer.transferTx ELSE 0,
            endpoint |->
              IF "endpoint" \in DOMAIN wgPeer THEN <<wgPeer.endpoint>> ELSE <<>> ]
  ELSE [ status |-> "never_connected", last_handshake |-> <<>>, transfer_rx |-> 0,
         transfer_tx |-> 0, endpoint |-> <<>> ]

\* updateData that leaves the counters of a peer the snapshot does not list
UpdateDataKeepingCounters(wgStatus, dbPeer) ==
  IF dbPeer.public_key \in DOMAIN wgStatus.peers
  THEN LET wgPeer == wgStatus.peers[dbPeer.public_key]
       IN [ status |-> wgPeer.status,
            last_handshake |->
              IF "lastHandshake" \in DOMAIN wgPeer THEN wgPeer.lastHandshake ELSE <<>>,
            transfer_rx |->
              IF "transferRx" \in DOMAIN wgPeer THEN wgPeer.transferRx ELSE 0,
            transfer_tx |->
              IF "transferTx" \in DOMAIN wgPeer THEN wgPeer.transferTx ELSE 0,
            endpoint |->
              IF "endpoint" \in DOMAIN wgPeer THEN <<wgPeer.endpoint>> ELSE <<>> ]
  ELSE [status |-> "disconnected", last_handshake |-> <<>>]

\* updateData that also resets the row's config file path
UpdateDataClearingPath(wgStatus, dbPeer) ==
  (IF dbPeer.public_key \in DOMAIN wgStatus.peers
   THEN LET wgPeer == wgStatus.peers[dbPeer.public_key]
        IN [ status |-> wgPeer.status,
             last_handshake |->
               IF "lastHandshake" \in DOMAIN wgPeer THEN wgPeer.lastHandshake ELSE <<>>,
             transfer_rx |->
               IF "transferRx" \in DOMAIN wgPeer THEN wgPeer.transferRx ELSE 0,
             transfer_tx |->
               IF "transferTx" \in DOMAIN wgPeer THEN wgPeer.transferTx ELSE 0,
             endpoint |->
               IF "endpoint" \in DOMAIN wgPeer THEN <<wgPeer.endpoint>> ELSE <<>> ]
   ELSE [ status |-> "disconnected", last_handshake |-> <<>>, transfer_rx |-> 0,
          transfer_tx |-> 0, endpoint |-> <<>> ])
  @@ [config_file_path |-> <<>>]

\* a server update that blanks the key and the port when there is no interface
ServerUpdateDataClearing(wgStatus) ==
  IF wgStatus.interface # <<>>
  THEN [ status |-> "running",
         public_key |-> wgStatus.interface[1].publicKey,
         listen_port |-> wgStatus.interface[1].listenPort ]
  ELSE [status |-> "stopped", public_key |-> "", listen_port |-> 0]

(***************************************************************************)
(* getMockWireGuardStatus: the fallback snapshot, built at time now.       *)
(***************************************************************************)
ServerKey == "xCi3cBO9Azd7L1jkKUWUVZNC2uEH7HTPY+05GrMkOUE="

getMockWireGuardStatus(now) ==
  [ interface |-> Some([name |-> "wg0", publicKey |-> ServerKey, listenPort |-> 51820]),
    peers |->
      ("mock_peer_key_1" :>
         [ publicKey |-> "mock_peer_key_1",
           status |-> "connected",
           endpoint |-> "192.168.1.100:51820",
           allowedIps |-> "10.7.0.2/32",
           lastHandshake |-> Some(now - 90),
           transferRx |-> 1248,
           transferTx |-> 2456 ])
      @@
      ("mock_peer_key_2" :>
         [ publicKey |-> "mock_peer_key_2",
           status |-> "disconnected",
           endpoint |-> "192.168.1.101:51820",
           allowedIps |-> "10.7.0.3/32",
           lastHandshake |-> Some(now - 300),
           transferRx |-> 5670,
           transferTx |-> 8900 ]) ]

(***************************************************************************)
(* parseWireGuardOutput.  The output is the sequence of its trimmed,       *)
(* non-empty lines; a line is [label, value], label being the prefix the   *)
(* parser tests with startsWith and value what it cuts out of the line:    *)
(* a string, the port number, the handshake text, or for "transfer" the    *)
(* two amounts the pattern captures (<<>> when the pattern does not match).*)
(***************************************************************************)
EmptyObject == [x \in {} |-> x]

\* the parser's locals: interface_info, peers, currentPeer
ParserStart == [interface_info |-> Null, peers |-> EmptyObject, currentPeer |-> Null]

\* a variant: a parser that keeps the first entry saved under a key
FlushPeerKeepingFirst(st) ==
  IF st.currentPeer = Null THEN st.peers
  ELSE LET cur == st.currentPeer[1]
       IN st.peers @@ (cur.publicKey :> cur)

\* peers[currentPeer.publicKey] = currentPeer
FlushPeer(st) ==
  IF st.currentPeer = Null THEN st.peers
  ELSE LET cur == st.currentPeer[1]
       IN (cur.publicKey :> cur) @@ st.peers

\* a variant: a loop in which a 'public key:' line always goes to the interface
ParseLineKeyToInterface(st, line) ==
  LET open == st.currentPeer # <<>>
      cur == st.currentPeer[1]
      info == st.interface_info[1]
  IN CASE line.label = "interface" ->
            [st EXCEPT !.interface_info = <<[name |-> line.value]>>]
       [] line.label = "public key" ->
            IF st.interface_info # <<>>
            THEN [st EXCEPT !.interface_info =
                    <<[x \in DOMAIN info \cup {"publicKey"} |->
                         IF x = "publicKey" THEN line.value ELSE info[x]]>>]
            ELSE st
       [] line.label = "listening port" ->
            IF st.interface_info # <<>>
            THEN [st EXCEPT !.interface_info =
                    <<[x \in DOMAIN info \cup {"listenPort"} |->
                         IF x = "listenPort" THEN line.value ELSE info[x]]>>]
            ELSE st
       [] line.label = "peer" ->
            [st EXCEPT !.peers = FlushPeer(st),
                       !.currentPeer = <<[publicKey |-> line.value,
                                          status |-> "connected"]>>]
       [] line.label = "endpoint" /\ open ->
            [st EXCEPT !.currentPeer = <<(("endpoint" :> line.value) @@ cur)>>]
       [] line.label = "allowed ips" /\ open ->
            [st EXCEPT !.currentPeer = <<(("allowedIps" :> line.value) @@ cur)>>]
       [] line.label = "latest handshake" /\ open ->
            [st EXCEPT !.currentPeer =
               <<(("lastHandshake" :> parseHandshakeTime(line.value, st.now))
                  @@ ("status" :> (IF isRecentHandshake(line.value)
                                   THEN "connected" ELSE "disconnected"))
                  @@ cur)>>]
       [] line.label = "transfer" /\ open /\ line.value # <<>> ->
            [st EXCEPT !.currentPeer =
               <<(("transferRx" :> parseTransferAmount(line.value[1]))
                  @@ ("transferTx" :> parseTransferAmount(line.value[2]))
                  @@ cur)>>]
       [] OTHER -> st

\* one iteration of the loop over lines
ParseLine(st, line) ==
  LET open == st.currentPeer # Null
      cur == st.currentPeer[1]
      info == st.interface_info[1]
  IN CASE line.label = "interface" ->
            [st EXCEPT !.interface_info = Some([name |-> line.value])]
       [] line.label = "public key" ->
            IF open
            THEN [st EXCEPT !.currentPeer = Some(With(cur, "publicKey", line.value))]
            ELSE IF st.interface_info # Null
                 THEN [st EXCEPT !.interface_info = Some(With(info, "publicKey", line.value))]
                 ELSE st
       [] line.label = "listening port" ->
            IF st.interface_info # Null
            THEN [st EXCEPT !.interface_info = Some(With(info, "listenPort", line.value))]
            ELSE st
       [] line.label = "peer" ->
            [st EXCEPT !.peers = FlushPeer(st),
                       !.currentPeer = Some([publicKey |-> line.value,
                                             status |-> "connected"])]
       [] line.label = "endpoint" ->
            IF open
            THEN [st EXCEPT !.currentPeer = Some(With(cur, "endpoint", line.value))]
            ELSE st
       [] line.label = "allowed ips" ->
            IF open
            THEN [st EXCEPT !.currentPeer = Some(With(cur, "allowedIps", line.value))]
            ELSE st
       [] line.label = "latest handshake" ->
            IF open
            THEN [st EXCEPT !.currentPeer =
                    Some(With(With(cur, "lastHandshake", parseHandshakeTime(line.value, st.now)),
                              "status",
                              IF isRecentHandshake(line.value)
                              THEN "connected" ELSE "disconnected"))]
            ELSE st
       [] line.label = "transfer" ->
            IF open /\ line.value # <<>>
            THEN [st EXCEPT !.currentPeer =
                    Some(With(With(cur, "transferRx", parseTransferAmount(line.value[1])),
                              "transferTx", parseTransferAmount(line.value[2])))]
            ELSE st
       [] OTHER -> st

RECURSIVE ParseLines(_, _)
ParseLines(st, lines) ==
  IF lines = <<>> THEN st
  ELSE ParseLines(ParseLine(st, Head(lines)), Tail(lines))

\* a variant: a parser that does not save the peer open at the end of the input
parseWireGuardOutputUnflushed(output, now) ==
  LET end == ParseLines([interface_info |-> <<>>, peers |-> [x \in {} |-> x],
                         currentPeer |-> <<>>, now |-> now], output)
  IN [interface |-> end.interface_info, peers |-> end.peers]

\* a variant: a parser that reports every peer it lists as connected
parseWireGuardOutputAllConnected(output, now) ==
  LET end == ParseLines([interface_info |-> <<>>, peers |-> [x \in {} |-> x],
                         currentPeer |-> <<>>, now |-> now], output)
      all == FlushPeer(end)
  IN [interface |-> end.interface_info,
      peers |-> [key \in DOMAIN all |-> [all[key] EXCEPT !.status = "connected"]]]

parseWireGuardOutput(output, now) ==
  LET end == ParseLines(With(ParserStart, "now", now), output)
  IN [interface |-> end.interface_info, peers |-> FlushPeer(end)]

(***************************************************************************)
(* The live interface wg0, as `sudo wg show wg0` reports it.  A configured *)
(* peer has its allowed ips, the endpoint and the time of its latest       *)
(* handshake once it has connected, and its traffic so far.                *)
(***************************************************************************)
\* the public keys generatePublicKey hands out, in the order wg lists them
KeyOrder == <<"k1", "k2", "k3", "k4", "kx">>
Keys == { KeyOrder[i] : i \in 1..Len(KeyOrder) }

FreshLivePeer(allowedIps) ==
  [allowedIps |-> allowedIps, endpoint |-> Null, hs |-> Null, traffic |-> 0]

\* "1 hour, 21 minutes, 2 seconds ago": the clauses of an age, zero ones left out
Clauses(age) ==
  LET d == age \div 86400
      h == (age % 86400) \div 3600
      m == (age % 3600) \div 60
      sec == age % 60
  IN (IF d > 0 THEN << <<d, "day">> >> ELSE <<>>)
     \o (IF h > 0 THEN << <<h, "hour">> >> ELSE <<>>)
     \o (IF m > 0 THEN << <<m, "minute">> >> ELSE <<>>)
     \o (IF sec > 0 THEN << <<sec, "second">> >> ELSE <<>>)

ClauseWords(clause, isLast) ==
  << Num(clause[1]),
     Word(clause[2] \o (IF clause[1] = 1 THEN "" ELSE "s")
                    \o (IF isLast THEN "" ELSE ",")) >>

RECURSIVE JoinClauses(_)
JoinClauses(clauses) ==
  IF clauses = <<>> THEN <<>>
  ELSE ClauseWords(Head(clauses), Len(clauses) = 1) \o JoinClauses(Tail(clauses))

\* the text wg prints for a handshake that is age seconds old
PrettyTime(age) ==
  IF age = 0 THEN << Word("Now") >>
  ELSE JoinClauses(Clauses(age)) \o << Word("ago") >>

\* the two amounts of a "transfer:" line after so much traffic
TransferTexts(traffic) ==
  << [unit |-> "KiB", value100 |-> 150 * traffic],
     [unit |-> "B", value100 |-> 9200 * traffic] >>

PeerBlock(key, live, now) ==
  << [label |-> "peer", value |-> key] >>
  \o (IF live.endpoint # Null
      THEN << [label |-> "endpoint", value |-> live.endpoint[1]] >> ELSE <<>>)
  \o << [label |-> "allowed ips", value |-> live.allowedIps] >>
  \o (IF live.hs # Null
      THEN << [label |-> "latest handshake", value |-> PrettyTime(now - live.hs[1])] >>
      ELSE <<>>)
  \o (IF live.traffic > 0
      THEN << [label |-> "transfer", value |-> TransferTexts(live.traffic)] >>
      ELSE <<>>)
  \o << [label |-> "persistent keepalive", value |-> "every 25 seconds"] >>

RECURSIVE PeerBlocks(_, _, _)
PeerBlocks(livePeers, now, i) ==
  IF i > Len(KeyOrder) THEN <<>>
  ELSE (IF KeyOrder[i] \in DOMAIN livePeers
        THEN PeerBlock(KeyOrder[i], livePeers[KeyOrder[i]], now) ELSE <<>>)
       \o PeerBlocks(livePeers, now, i + 1)

\* stdout of `wg show wg0` for an interface that is up
WgShow(iface, now) ==
  << [label |-> "interface", value |-> "wg0"],
     [label |-> "public key", value |-> ServerKey],
     [label |-> "private key", value |-> "(hidden)"],
     [label |-> "listening port", value |-> 51820] >>
  \o PeerBlocks(iface.peers, now, 1)

\* what process.output() can give: exit 0 with the report (or with nothing on
\* stdout), a non-zero exit, or an exception; a missing interface is a non-zero exit
StatusCommand(iface, now) ==
  (IF iface.up
   THEN { [kind |-> "exit0", stdout |-> WgShow(iface, now)],
          [kind |-> "exit0", stdout |-> <<>>] }
   ELSE {})
  \cup { [kind |-> "nonzero", stdout |-> <<>>], [kind |-> "throws", stdout |-> <<>>] }

\* a variant: a status query that hands a failure of the command on as an
\* empty snapshot
getWireGuardStatusPropagating(result, now) ==
  IF result.kind = "exit0"
  THEN parseWireGuardOutput(result.stdout, now)
  ELSE [interface |-> <<>>, peers |-> [x \in {} |-> x]]

getWireGuardStatus(result, now) ==
  IF result.kind = "exit0"
  THEN parseWireGuardOutput(result.stdout, now)
  ELSE getMockWireGuardStatus(now)

\* how the command went, for the record: the report, nothing on stdout, or a failure
Outcome(result) ==
  IF result.kind = "exit0"
  THEN (IF result.stdout = <<>> THEN "silent" ELSE "report")
  ELSE result.kind

(***************************************************************************)
(* The record store: a table is a function from the ids of its rows.       *)
(***************************************************************************)
EmptyTable == [x \in {} |-> x]

\* .update(data).eq('id', id): the row, if it is there, takes the columns of data
UpdateById(table, id, data) ==
  IF id \in DOMAIN table
  THEN [table EXCEPT ![id] = data @@ table[id]]
  ELSE table

\* .delete().eq('id', id)
DeleteById(table, id) == [x \in DOMAIN table \ {id} |-> table[x]]

\* the columns reconciliation writes
ReconColumns == {"status", "last_handshake", "transfer_rx", "transfer_tx", "endpoint"}
\* the columns the lifecycle operations own
IdentityColumns ==
  {"user_id", "name", "public_key", "private_key", "allowed_ips",
   "persistent_keepalive", "config_file_path"}

Restrict(row, columns) == [c \in columns |-> row[c]]

\* the rows the data migration seeds
SeedPeer ==
  [ user_id |-> "u1", name |-> "jnonymous", public_key |-> "k1", private_key |-> "",
    allowed_ips |-> "10.7.0.2/32", endpoint |-> Some("136.158.24.51:59295"),
    persistent_keepalive |-> 25, status |-> "connected", last_handshake |-> Null,
    transfer_rx |-> 0, transfer_tx |-> 0, config_file_path |-> Null ]

SeedServer ==
  [ interface_name |-> "wg0", listen_port |-> 51820, public_key |-> ServerKey,
    endpoint |-> "vpn.techpinoy.net:51820", status |-> "running" ]

(***************************************************************************)
(* State.                                                                  *)
(***************************************************************************)
VARIABLES
  clock,      \* the clock, in seconds
  wg,       \* the live interface: [up, peers]
  peers,    \* table wireguard_peers
  server,   \* table wireguard_server
  files,    \* the config files on the server's filesystem
  nextId,   \* the next row id gen_random_uuid() gives
  sync,     \* the sync_wireguard_status request in flight
  req,      \* the other request in flight
  last,     \* what the previous completed sync pass left (history)
  served,   \* the requests accepted so far, where they are counted
  call      \* the latest call of a function taken on its own (history)

vars == <<clock, wg, peers, server, files, nextId, sync, req, last, served, call>>

NoSnapshot == [interface |-> Null, peers |-> EmptyObject]
NoResponse == [status |-> 0]

SyncIdle ==
  [ pc |-> "idle", cmd |-> "none", wgStatus |-> NoSnapshot,
    existingServer |-> Null, dbPeers |-> <<>>, i |-> 1,
    updatedCount |-> 0, persisted |-> {}, missed |-> {}, response |-> NoResponse ]

ReqIdle == [pc |-> "idle"]
NoLast == [valid |-> FALSE]
NoCall == [fn |-> "none", earlier |-> Null]

\* the names of the rows the tables start with; the first is the seeded one
NameOrder == <<"jnonymous", "alice", "bob", "carol">>

\* a row create_peer made for u2 earlier: its add-peer failed, no sync reached it yet
CreatedPeer(id) ==
  [ user_id |-> "u2", name |-> NameOrder[id], public_key |-> KeyOrder[id],
    private_key |-> "priv:" \o KeyOrder[id], allowed_ips |-> "10.0.0.2/32",
    endpoint |-> Null, persistent_keepalive |-> 25, status |-> "never_connected",
    last_handshake |-> Null, transfer_rx |-> 0, transfer_tx |-> 0,
    config_file_path |-> Some("/root/" \o NameOrder[id] \o ".conf") ]

\* wireguard_peers with its first n rows
PeersTable(n) == [id \in 1..n |-> IF id = 1 THEN SeedPeer ELSE CreatedPeer(id)]

\* the seeded peer and a peer no row knows are configured on the interface
Init ==
  /\ clock = 1000
  /\ wg = [ up |-> TRUE,
            peers |-> ("k1" :> FreshLivePeer("10.7.0.2/32"))
                      @@ ("kx" :> [ allowedIps |-> "10.7.0.9/32",
                                    endpoint |-> Some("203.0.113.9:4500"),
                                    hs |-> Some(940), traffic |-> 1 ]) ]
  /\ \E n \in 0..MaxPeers :
       /\ peers = PeersTable(n)
       /\ nextId = n + 1
       /\ files = { PeersTable(n)[id].config_file_path[1] : id \in 2..n }
  /\ server \in {EmptyTable, ("s1" :> SeedServer)}
  /\ sync = SyncIdle
  /\ req = ReqIdle
  /\ last = NoLast
  /\ served = 0
  /\ call = NoCall

\* no request is in flight
Quiet == sync.pc = "idle" /\ req.pc = "idle"

(***************************************************************************)
(* The environment: time passes, peers connect, the interface restarts.    *)
(***************************************************************************)
Tick ==
  /\ clock < 1000 + 100 * MaxTicks
  /\ clock' = clock + 100
  /\ UNCHANGED <<wg, peers, server, files, nextId, sync, req, last>>

PeerEndpoint(key) == "198.51.100.7:51820"

Handshake(key) ==
  /\ wg.up
  /\ key \in DOMAIN wg.peers
  /\ key # "kx"
  /\ wg.peers[key].traffic < MaxTraffic
  /\ wg' = [wg EXCEPT !.peers[key] =
              [@ EXCEPT !.endpoint = Some(PeerEndpoint(key)),
                        !.hs = Some(clock),
                        !.traffic = @ + 1]]
  /\ last' = NoLast
  /\ UNCHANGED <<clock, peers, server, files, nextId, sync, req>>

\* the interface goes away; its peers' state is lost
WgDown ==
  /\ wg.up
  /\ wg' = [up |-> FALSE,
            peers |-> [k \in DOMAIN wg.peers |-> FreshLivePeer(wg.peers[k].allowedIps)]]
  /\ last' = NoLast
  /\ UNCHANGED <<clock, peers, server, files, nextId, sync, req>>

WgUp ==
  /\ ~wg.up
  /\ wg' = [wg EXCEPT !.up = TRUE]
  /\ last' = NoLast
  /\ UNCHANGED <<clock, peers, server, files, nextId, sync, req>>

(***************************************************************************)
(* syncWireGuardStatus, one action per await.                              *)
(***************************************************************************)
\* the updateData of one dbPeer
UpdateData(wgStatus, dbPeer) ==
  LET found == dbPeer.public_key \in DOMAIN wgStatus.peers
      wgPeer == wgStatus.peers[dbPeer.public_key]
  IN [ status |-> IF found THEN wgPeer.status ELSE "disconnected",
       last_handshake |->
         IF found /\ Has(wgPeer, "lastHandshake") THEN wgPeer.lastHandshake ELSE Null,
       transfer_rx |->
         IF found /\ Has(wgPeer, "transferRx") THEN wgPeer.transferRx ELSE 0,
       transfer_tx |->
         IF found /\ Has(wgPeer, "transferTx") THEN wgPeer.transferTx ELSE 0,
       endpoint |->
         IF found /\ Has(wgPeer, "endpoint") /\ wgPeer.endpoint # ""
         THEN Some(wgPeer.endpoint) ELSE Null ]

\* const wgStatus = await getWireGuardStatus()
SyncGetStatus ==
  /\ sync.pc = "idle"
  /\ \E result \in StatusCommand(wg, clock) :
       sync' = [sync EXCEPT !.pc = "select_server",
                            !.cmd = Outcome(result),
                            !.wgStatus = getWireGuardStatus(result, clock)]
  /\ UNCHANGED <<clock, wg, peers, server, files, nextId, req, last>>

\* .from('wireguard_server').select('id').limit(1).single()
SyncSelectServer ==
  /\ sync.pc = "select_server"
  /\ \/ /\ DOMAIN server = {}
        /\ sync' = [sync EXCEPT !.pc = "select_peers", !.existingServer = Null]
     \/ \E id \in DOMAIN server :
          sync' = [sync EXCEPT !.pc = "update_server", !.existingServer = Some(id)]
  /\ UNCHANGED <<clock, wg, peers, server, files, nextId, req, last>>

\* the columns of the server update: a property that is undefined is not sent
ServerUpdateData(wgStatus) ==
  LET up == wgStatus.interface # Null
      info == wgStatus.interface[1]
  IN (IF up /\ Has(info, "publicKey") THEN [public_key |-> info.publicKey] ELSE EmptyObject)
     @@ (IF up /\ Has(info, "listenPort") THEN [listen_port |-> info.listenPort] ELSE EmptyObject)
     @@ [status |-> IF up THEN "running" ELSE "stopped"]

\* if (existingServer) await ...update({...}).eq('id', existingServer.id)
SyncUpdateServer ==
  /\ sync.pc = "update_server"
  /\ server' = UpdateById(server, sync.existingServer[1],
                          ServerUpdateData(sync.wgStatus))
  /\ sync' = [sync EXCEPT !.pc = "select_peers"]
  /\ UNCHANGED <<clock, wg, peers, files, nextId, req, last>>

\* the rows of a table as select returns them
RECURSIVE RowsFrom(_, _, _)
RowsFrom(table, id, columns) ==
  IF id > MaxPeers THEN <<>>
  ELSE (IF id \in DOMAIN table
        THEN << With(Restrict(table[id], columns), "id", id) >> ELSE <<>>)
       \o RowsFrom(table, id + 1, columns)

\* .from('wireguard_peers').select('id, public_key, name'), and if (dbError) throw
SyncSelectPeers ==
  /\ sync.pc = "select_peers"
  /\ \/ sync' = [sync EXCEPT !.pc = "update_peer",
                             !.dbPeers = RowsFrom(peers, 1, {"public_key", "name"}),
                             !.i = 1]
     \/ sync' = [sync EXCEPT !.pc = "done",
                             !.response = [status |-> 500, error |-> "Failed to fetch peers"]]
  /\ UNCHANGED <<clock, wg, peers, server, files, nextId, req, last>>

\* what an awaited store call can do: carry the change out, resolve with an
\* error in its result, or throw
StoreOutcomes == {"ok", "error", "throws"}

\* one iteration of the loop over dbPeers
SyncUpdatePeer ==
  /\ sync.pc = "update_peer"
  /\ sync.i <= Len(sync.dbPeers)
  /\ LET dbPeer == sync.dbPeers[sync.i]
     IN \E outcome \in StoreOutcomes :
          /\ peers' = IF outcome = "ok"
                      THEN UpdateById(peers, dbPeer.id,
                                      UpdateData(sync.wgStatus, dbPeer))
                      ELSE peers
          /\ sync' = [sync EXCEPT
                        !.i = @ + 1,
                        !.updatedCount = IF outcome = "throws" THEN @ ELSE @ + 1,
                        !.persisted = IF outcome = "ok" /\ dbPeer.id \in DOMAIN peers
                                      THEN @ \cup {dbPeer.id} ELSE @,
                        !.missed = IF outcome = "ok" /\ dbPeer.id \notin DOMAIN peers
                                   THEN @ \cup {dbPeer.id} ELSE @]
  /\ UNCHANGED <<clock, wg, server, files, nextId, req, last>>

\* return new Response({ success: true, interface, peersUpdated })
SyncRespond ==
  /\ sync.pc = "update_peer"
  /\ sync.i > Len(sync.dbPeers)
  /\ sync' = [sync EXCEPT !.pc = "done",
                          !.response = [status |-> 200, success |-> TRUE,
                                        interface |-> sync.wgStatus.interface,
                                        peersUpdated |-> sync.updatedCount]]
  /\ UNCHANGED <<clock, wg, peers, server, files, nextId, req, last>>

\* every row the pass loaded had its update persisted
AllPersisted(s) ==
  s.response.status = 200
  /\ s.persisted = { s.dbPeers[j].id : j \in 1..Len(s.dbPeers) }

\* the response is sent; the pass is over
SyncReturn ==
  /\ sync.pc = "done"
  /\ sync' = SyncIdle
  /\ last' = IF AllPersisted(sync) /\ req.pc = "idle"
             THEN [ valid |-> TRUE, cmd |-> sync.cmd, at |-> clock,
                    rows |-> [id \in DOMAIN peers |-> Restrict(peers[id], ReconColumns)] ]
             ELSE NoLast
  /\ UNCHANGED <<clock, wg, peers, server, files, nextId, req>>

(***************************************************************************)
(* The other requests.  req holds the handler's position and locals.       *)
(***************************************************************************)
Users == {"u1", "u2"}
PeerIds == 1..MaxPeers

\* the public key generatePublicKey returns for the next row: a fresh one, or
\* (a key typed in by hand run through wg pubkey, the random fallback) one
\* that was handed out before
GenKeys(id) == {KeyOrder[id], KeyOrder[1]}

\* the bodies of create_peer requests: complete, without allowedIps, without
\* name, and with an allowedIps that is no address range
CreateParams ==
  { [name |-> "alice", allowedIps |-> "10.7.0.3/32"],
    [name |-> "jnonymous"],
    [allowedIps |-> "10.7.0.4/32"],
    [name |-> "alice", allowedIps |-> "10.7.0.300"] }

\* the row an insert of these columns makes, with the table's defaults
NewPeerRow(userId, params, publicKey) ==
  [ user_id |-> userId, name |-> params.name, public_key |-> publicKey,
    private_key |-> "priv:" \o publicKey,
    allowed_ips |-> IF Has(params, "allowedIps") /\ params.allowedIps # ""
                    THEN params.allowedIps ELSE "10.0.0.2/32",
    endpoint |-> Null, persistent_keepalive |-> 25, status |-> "never_connected",
    last_handshake |-> Null, transfer_rx |-> 0, transfer_tx |-> 0,
    config_file_path |-> Null ]

\* a variant: a table without the constraint on public_key
InsertAllowedAnyKey(table, userId, params, publicKey) ==
  /\ "name" \in DOMAIN params
  /\ \A id \in DOMAIN table :
       ~(table[id].name = params.name /\ table[id].user_id = userId)

\* NOT NULL name, UNIQUE (public_key), UNIQUE (name, user_id)
InsertAllowed(table, userId, params, publicKey) ==
  /\ Has(params, "name")
  /\ \A id \in DOMAIN table :
       /\ table[id].public_key # publicKey
       /\ ~(table[id].name = params.name /\ table[id].user_id = userId)

\* the handler ends; what it was asked and what it attempted stay on record
Respond(r, response) ==
  [pc |-> "done", op |-> r.op, response |-> response]
  @@ [x \in DOMAIN r \cap {"id", "log", "params", "publicKey", "userId"} |-> r[x]]

\* createPeer: generate the keys and insert the row
CreateInsert(userId, params) ==
  /\ req.pc = "idle"
  /\ nextId <= MaxPeers
  /\ \E publicKey \in GenKeys(nextId), outcome \in {"ok", "error"} :
       IF outcome = "ok" /\ InsertAllowed(peers, userId, params, publicKey)
       THEN /\ peers' = (nextId :> NewPeerRow(userId, params, publicKey)) @@ peers
            /\ nextId' = nextId + 1
            /\ req' = [ pc |-> "create_config", op |-> "create_peer",
                        name |-> params.name, params |-> params, log |-> <<>>,
                        peer |-> With(NewPeerRow(userId, params, publicKey),
                                      "id", nextId) ]
       ELSE /\ req' = Respond([op |-> "create_peer", params |-> params,
                               publicKey |-> publicKey],
                              [status |-> 500, error |-> "Failed to create peer"])
            /\ UNCHANGED <<peers, nextId>>
  /\ last' = NoLast
  /\ UNCHANGED <<clock, wg, server, files, sync>>

\* generatePeerConfig: the server row, or throw
CreateConfig ==
  /\ req.pc = "create_config"
  /\ IF DOMAIN server = {}
     THEN req' = Respond(req, [status |-> 500, error |-> "Server configuration not found"])
     ELSE req' = [req EXCEPT !.pc = "create_file"]
  /\ UNCHANGED <<clock, wg, peers, server, files, nextId, sync, last>>

ConfigPath(name) == "/root/" \o name \o ".conf"

\* Deno.writeTextFile(configPath, configContent), a failure logged
CreateWriteFile ==
  /\ req.pc = "create_file"
  /\ \E written \in BOOLEAN :
       /\ files' = IF written THEN files \cup {ConfigPath(req.name)} ELSE files
       /\ req' = [req EXCEPT !.pc = "create_add",
                             !.log = Append(@, [step |-> "write file", ok |-> written])]
  /\ UNCHANGED <<clock, wg, peers, server, nextId, sync, last>>

\* wg set wg0 peer <key> allowed-ips <ips> persistent-keepalive <n>
addPeerToInterface(iface, peer) ==
  [iface EXCEPT !.peers =
     IF peer.public_key \in DOMAIN iface.peers
     THEN [iface.peers EXCEPT ![peer.public_key].allowedIps = peer.allowed_ips]
     ELSE (peer.public_key :> FreshLivePeer(peer.allowed_ips)) @@ iface.peers]

\* wg set wg0 peer <key> remove
removePeerFromInterface(iface, publicKey) ==
  [iface EXCEPT !.peers = [k \in DOMAIN iface.peers \ {publicKey} |-> iface.peers[k]]]

\* whether a `wg set` can succeed: never on a missing interface, and it may
\* fail on one that is up (sudo, permissions)
SetCommandOutcomes(iface) == IF iface.up THEN {TRUE, FALSE} ELSE {FALSE}

\* a variant: a create that takes its row back when the add-peer command fails
CreateAddPeerFatal ==
  /\ req.pc = "create_add"
  /\ \E success \in SetCommandOutcomes(wg) :
       IF success
       THEN /\ wg' = addPeerToInterface(wg, req.peer)
            /\ req' = [req EXCEPT !.pc = "create_path",
                                  !.log = Append(@, [step |-> "add peer", ok |-> TRUE])]
            /\ peers' = peers
       ELSE /\ wg' = wg
            /\ req' = Respond([req EXCEPT !.log = Append(@, [step |-> "add peer",
                                                             ok |-> FALSE])],
                              [status |-> 500, error |-> "Failed to add peer"])
            /\ peers' = DeleteById(peers, req.peer.id)
  /\ UNCHANGED <<clock, server, files, nextId, sync, last>>

\* addPeerToInterface(peer), a failure logged
CreateAddPeer ==
  /\ req.pc = "create_add"
  /\ \E success \in SetCommandOutcomes(wg) :
       /\ wg' = IF success THEN addPeerToInterface(wg, req.peer) ELSE wg
       /\ req' = [req EXCEPT !.pc = "create_path",
                             !.log = Append(@, [step |-> "add peer", ok |-> success])]
  /\ UNCHANGED <<clock, peers, server, files, nextId, sync, last>>

\* .update({ config_file_path: configPath }).eq('id', peer.id), an error logged
CreateSetPath ==
  /\ req.pc = "create_path"
  /\ \E outcome \in {"ok", "error"} :
       peers' = IF outcome = "ok"
                THEN UpdateById(peers, req.peer.id,
                                [config_file_path |-> Some(ConfigPath(req.name))])
                ELSE peers
  /\ req' = Respond(req, [status |-> 200, peer |-> req.peer])
  /\ UNCHANGED <<clock, wg, server, files, nextId, sync, last>>

\* a variant: a delete that tidies up after a row it does not find
DeleteSelectLenient(userId, id) ==
  /\ req.pc = "idle"
  /\ req' = IF id \in DOMAIN peers
            THEN [ pc |-> "delete_live", op |-> "delete_peer", id |-> id, log |-> <<>>,
                   userId |-> userId,
                   peer |-> [x \in {"config_file_path", "public_key", "name"} |-> peers[id][x]] ]
            ELSE [ pc |-> "delete_live", op |-> "delete_peer", id |-> id, log |-> <<>>,
                   userId |-> userId,
                   peer |-> [config_file_path |-> <<"/root/jnonymous.conf">>,
                             public_key |-> "k1", name |-> "jnonymous"] ]
  /\ last' = [valid |-> FALSE]
  /\ UNCHANGED <<clock, wg, peers, server, files, nextId, sync>>

\* deletePeer(userId, params): look the row up by id; userId is not used
DeleteSelect(userId, id) ==
  /\ req.pc = "idle"
  /\ \E outcome \in {"ok", "error"} :
       IF outcome = "ok" /\ id \in DOMAIN peers
       THEN req' = [ pc |-> "delete_live", op |-> "delete_peer", id |-> id, log |-> <<>>,
                     userId |-> userId,
                     peer |-> Restrict(peers[id], {"config_file_path", "public_key", "name"}) ]
       ELSE req' = Respond([op |-> "delete_peer", id |-> id, log |-> <<>>,
                            userId |-> userId],
                           [status |-> 500, error |-> "Peer not found"])
  /\ last' = NoLast
  /\ UNCHANGED <<clock, wg, peers, server, files, nextId, sync>>

\* a variant: a delete that gives up when the remove-peer command fails
DeleteRemoveLiveFatal ==
  /\ req.pc = "delete_live"
  /\ \E success \in SetCommandOutcomes(wg) :
       IF success
       THEN /\ wg' = removePeerFromInterface(wg, req.peer.public_key)
            /\ req' = [req EXCEPT !.pc = "delete_file",
                                  !.log = Append(@, [step |-> "remove peer", ok |-> TRUE])]
       ELSE /\ wg' = wg
            /\ req' = Respond([req EXCEPT !.log = Append(@, [step |-> "remove peer",
                                                             ok |-> FALSE])],
                              [status |-> 500, error |-> "Failed to remove peer"])
  /\ UNCHANGED <<clock, peers, server, files, nextId, sync, last>>

\* removePeerFromInterface(peer.public_key), a failure logged
DeleteRemoveLive ==
  /\ req.pc = "delete_live"
  /\ \E success \in SetCommandOutcomes(wg) :
       /\ wg' = IF success THEN removePeerFromInterface(wg, req.peer.public_key) ELSE wg
       /\ req' = [req EXCEPT !.pc = "delete_file",
                             !.log = Append(@, [step |-> "remove peer", ok |-> success])]
  /\ UNCHANGED <<clock, peers, server, files, nextId, sync, last>>

\* if (peer.config_file_path) Deno.remove(...), a failure logged
DeleteFile ==
  /\ req.pc = "delete_file"
  /\ IF req.peer.config_file_path # Null
     THEN \E removed \in BOOLEAN :
            /\ files' = IF removed THEN files \ {req.peer.config_file_path[1]} ELSE files
            /\ req' = [req EXCEPT !.pc = "delete_row",
                                  !.log = Append(@, [step |-> "remove file", ok |-> removed])]
     ELSE /\ files' = files
          /\ req' = [req EXCEPT !.pc = "delete_row"]
  /\ UNCHANGED <<clock, wg, peers, server, nextId, sync, last>>

\* .delete().eq('id', id), and if (error) throw
DeleteRow ==
  /\ req.pc = "delete_row"
  /\ \E outcome \in {"ok", "error"} :
       IF outcome = "ok"
       THEN /\ peers' = DeleteById(peers, req.id)
            /\ req' = Respond([req EXCEPT !.log = Append(@, [step |-> "delete row", ok |-> TRUE])],
                              [status |-> 200, success |-> TRUE])
       ELSE /\ peers' = peers
            /\ req' = Respond([req EXCEPT !.log = Append(@, [step |-> "delete row", ok |-> FALSE])],
                              [status |-> 500, error |-> "Failed to delete peer"])
  /\ UNCHANGED <<clock, wg, server, files, nextId, sync, last>>

\* the bodies of update_peer requests, less the id: a key another row may
\* have, a key no row has, a name and an address range
UpdateParams ==
  { [public_key |-> "k1"],
    [public_key |-> "k3"],
    [name |-> "alice", allowed_ips |-> "10.7.0.5/32"] }

\* a variant: a table without the constraint on public_key
UpdateAllowedAnyKey(table, id, updates) ==
  LET row == updates @@ table[id]
  IN \A other \in DOMAIN table \ {id} :
       ~(table[other].name = row.name /\ table[other].user_id = row.user_id)

\* UNIQUE (public_key), UNIQUE (name, user_id)
UpdateAllowed(table, id, updates) ==
  LET row == updates @@ table[id]
  IN \A other \in DOMAIN table \ {id} :
       /\ table[other].public_key # row.public_key
       /\ ~(table[other].name = row.name /\ table[other].user_id = row.user_id)

\* a variant: an update that mirrors the row onto the interface
UpdatePeerMirroring(userId, id, updates) ==
  /\ req.pc = "idle"
  /\ \E outcome \in {"ok", "error"} :
       IF /\ outcome = "ok"
          /\ id \in DOMAIN peers
          /\ peers[id].user_id = userId
          /\ UpdateAllowed(peers, id, updates)
       THEN /\ peers' = UpdateById(peers, id, updates)
            /\ wg' = addPeerToInterface(wg, peers'[id])
            /\ req' = Respond([op |-> "update_peer", id |-> id, params |-> updates,
                               userId |-> userId],
                              [status |-> 200, peer |-> With(peers'[id], "id", id)])
       ELSE /\ peers' = peers
            /\ wg' = wg
            /\ req' = Respond([op |-> "update_peer", id |-> id, params |-> updates,
                               userId |-> userId],
                              [status |-> 500, error |-> "Failed to update peer"])
  /\ last' = [valid |-> FALSE]
  /\ UNCHANGED <<clock, server, files, nextId, sync>>

\* updatePeer: .update(updates).eq('id', id).eq('user_id', userId).select().single(),
\* and if (error) throw
UpdatePeer(userId, id, updates) ==
  /\ req.pc = "idle"
  /\ \E outcome \in {"ok", "error"} :
       IF /\ outcome = "ok"
          /\ id \in DOMAIN peers
          /\ peers[id].user_id = userId
          /\ UpdateAllowed(peers, id, updates)
       THEN /\ peers' = UpdateById(peers, id, updates)
            /\ req' = Respond([op |-> "update_peer", id |-> id, params |-> updates,
                               userId |-> userId],
                              [status |-> 200, peer |-> With(peers'[id], "id", id)])
       ELSE /\ peers' = peers
            /\ req' = Respond([op |-> "update_peer", id |-> id, params |-> updates,
                               userId |-> userId],
                              [status |-> 500, error |-> "Failed to update peer"])
  /\ last' = NoLast
  /\ UNCHANGED <<clock, wg, server, files, nextId, sync>>

\* updateServerStatus: .update({ status }).select().limit(1).single() on every
\* row of wireguard_server, and if (error) throw
UpdateServerStatus(status) ==
  /\ req.pc = "idle"
  /\ \E outcome \in {"ok", "error"} :
       IF outcome = "ok" /\ DOMAIN server # {}
       THEN /\ server' = [id \in DOMAIN server |-> [server[id] EXCEPT !.status = status]]
            /\ req' = Respond([op |-> "update_server_status"],
                              IF Cardinality(DOMAIN server) = 1
                              THEN [status |-> 200,
                                    config |-> server'[CHOOSE id \in DOMAIN server : TRUE]]
                              ELSE [status |-> 500,
                                    error |-> "Failed to update server status"])
       ELSE /\ server' = server
            /\ req' = Respond([op |-> "update_server_status"],
                              [status |-> 500, error |-> "Failed to update server status"])
  /\ last' = NoLast
  /\ UNCHANGED <<clock, wg, peers, files, nextId, sync>>

\* getPeerStatus: the row by id and user_id
StatusSelect(userId, peerId) ==
  /\ req.pc = "idle"
  /\   IF peerId \in DOMAIN peers /\ peers[peerId].user_id = userId
       THEN req' = [ pc |-> "status_wg", op |-> "get_peer_status", userId |-> userId,
                     peerId |-> peerId, cmd |-> "none",
                     peerData |-> Restrict(peers[peerId], {"public_key"}),
                     wgStatus |-> NoSnapshot ]
       ELSE req' = Respond([op |-> "get_peer_status", userId |-> userId],
                           [status |-> 500, error |-> "Peer not found"])
  /\ last' = NoLast
  /\ UNCHANGED <<clock, wg, peers, server, files, nextId, sync>>

\* const wgStatus = await getWireGuardStatus()
StatusGetStatus ==
  /\ req.pc = "status_wg"
  /\ \E result \in StatusCommand(wg, clock) :
       req' = [req EXCEPT !.pc = "status_update",
                          !.cmd = Outcome(result),
                          !.wgStatus = getWireGuardStatus(result, clock)]
  /\ UNCHANGED <<clock, wg, peers, server, files, nextId, sync, last>>

\* the columns getPeerStatus writes
PeerStatusData(wgStatus, publicKey) ==
  IF publicKey \notin DOMAIN wgStatus.peers
  THEN [status |-> "disconnected", last_handshake |-> Null]
  ELSE LET peerStatus == wgStatus.peers[publicKey]
       IN [status |-> peerStatus.status]
          @@ (IF Has(peerStatus, "lastHandshake")
              THEN [last_handshake |-> peerStatus.lastHandshake] ELSE EmptyObject)
          @@ (IF Has(peerStatus, "transferRx")
              THEN [transfer_rx |-> peerStatus.transferRx] ELSE EmptyObject)
          @@ (IF Has(peerStatus, "transferTx")
              THEN [transfer_tx |-> peerStatus.transferTx] ELSE EmptyObject)
          @@ (IF Has(peerStatus, "endpoint")
              THEN [endpoint |-> Some(peerStatus.endpoint)] ELSE EmptyObject)

\* .update({...}).eq('id', peerId).eq('user_id', userId).select().single()
StatusUpdate ==
  /\ req.pc = "status_update"
  /\ \E outcome \in {"ok", "error"} :
       IF /\ outcome = "ok"
          /\ req.peerId \in DOMAIN peers
          /\ peers[req.peerId].user_id = req.userId
       THEN /\ peers' = UpdateById(peers, req.peerId,
                                   PeerStatusData(req.wgStatus, req.peerData.public_key))
            /\ req' = [ pc |-> "done", op |-> req.op, cmd |-> req.cmd,
                        wgStatus |-> req.wgStatus,
                        response |-> [status |-> 200, peer |-> peers'[req.peerId]] ]
       ELSE /\ peers' = peers
            /\ req' = [ pc |-> "done", op |-> req.op, cmd |-> req.cmd,
                        wgStatus |-> req.wgStatus,
                        response |-> [status |-> 500,
                                      error |-> "Failed to update peer status"] ]
  /\ UNCHANGED <<clock, wg, server, files, nextId, sync, last>>

\* the response is sent
ReqReturn ==
  /\ req.pc = "done"
  /\ req' = ReqIdle
  /\ UNCHANGED <<clock, wg, peers, server, files, nextId, sync, last>>

\* a step that is neither the start of a counted request nor a call on its own
Rest == UNCHANGED <<served, call>>

\* Reconciliation: one sync or get_peer_status request at a time, the
\* environment moving between requests
Next ==
  \/ req.pc = "idle" /\ SyncGetStatus /\ Rest
  \/ SyncSelectServer /\ Rest
  \/ SyncUpdateServer /\ Rest
  \/ SyncSelectPeers /\ Rest
  \/ SyncUpdatePeer /\ Rest
  \/ SyncRespond /\ Rest
  \/ SyncReturn /\ Rest
  \/ sync.pc = "idle" /\ (\E userId \in Users, peerId \in PeerIds :
                            StatusSelect(userId, peerId)) /\ Rest
  \/ StatusGetStatus /\ Rest
  \/ StatusUpdate /\ Rest
  \/ ReqReturn /\ Rest
  \/ Quiet /\ Tick /\ Rest
  \/ Quiet /\ (\E key \in Keys : Handshake(key)) /\ Rest
  \/ Quiet /\ WgDown /\ Rest
  \/ Quiet /\ WgUp /\ Rest

Spec == Init /\ [][Next]_vars

\* a request is accepted, while the budget lasts
Accept == served < MaxRequests /\ served' = served + 1 /\ UNCHANGED call

\* A sync pass and a create or delete request, their steps interleaved
NextLifecycle ==
  \/ Accept /\ SyncGetStatus
  \/ Accept /\ (\E userId \in Users, params \in CreateParams :
                  CreateInsert(userId, params))
  \/ Accept /\ (\E userId \in Users, id \in PeerIds : DeleteSelect(userId, id))
  \/ SyncSelectServer /\ Rest
  \/ SyncUpdateServer /\ Rest
  \/ SyncSelectPeers /\ Rest
  \/ SyncUpdatePeer /\ Rest
  \/ SyncRespond /\ Rest
  \/ SyncReturn /\ Rest
  \/ CreateConfig /\ Rest
  \/ CreateWriteFile /\ Rest
  \/ CreateAddPeer /\ Rest
  \/ CreateSetPath /\ Rest
  \/ DeleteRemoveLive /\ Rest
  \/ DeleteFile /\ Rest
  \/ DeleteRow /\ Rest
  \/ ReqReturn /\ Rest

\* the seeded tables
InitLifecycle ==
  /\ Init
  /\ nextId = 2
  /\ DOMAIN server # {}

SpecLifecycle == InitLifecycle /\ [][NextLifecycle]_vars

\* the values of an update_server_status request
ServerStatuses == {"running", "stopped"}

\* Every request of the function, one at a time
NextRequests ==
  \/ Quiet /\ Accept /\ SyncGetStatus
  \/ Quiet /\ Accept /\ (\E userId \in Users, params \in CreateParams :
                            CreateInsert(userId, params))
  \/ Quiet /\ Accept /\ (\E userId \in Users, id \in PeerIds, updates \in UpdateParams :
                            UpdatePeer(userId, id, updates))
  \/ Quiet /\ Accept /\ (\E userId \in Users, id \in PeerIds : DeleteSelect(userId, id))
  \/ Quiet /\ Accept /\ (\E userId \in Users, peerId \in PeerIds :
                            StatusSelect(userId, peerId))
  \/ Quiet /\ Accept /\ (\E status \in ServerStatuses : UpdateServerStatus(status))
  \/ SyncSelectServer /\ Rest
  \/ SyncUpdateServer /\ Rest
  \/ SyncSelectPeers /\ Rest
  \/ SyncUpdatePeer /\ Rest
  \/ SyncRespond /\ Rest
  \/ SyncReturn /\ Rest
  \/ CreateConfig /\ Rest
  \/ CreateWriteFile /\ Rest
  \/ CreateAddPeer /\ Rest
  \/ CreateSetPath /\ Rest
  \/ DeleteRemoveLive /\ Rest
  \/ DeleteFile /\ Rest
  \/ DeleteRow /\ Rest
  \/ StatusGetStatus /\ Rest
  \/ StatusUpdate /\ Rest
  \/ ReqReturn /\ Rest

\* the tables with any number of rows, the server row among them
InitRequests ==
  /\ Init
  /\ DOMAIN server # {}

SpecRequests == InitRequests /\ [][NextRequests]_vars

\* create_peer requests, one at a time, the server table seeded or empty
NextCreate ==
  \/ Quiet /\ Accept /\ (\E userId \in Users, params \in CreateParams :
                            CreateInsert(userId, params))
  \/ CreateConfig /\ Rest
  \/ CreateWriteFile /\ Rest
  \/ CreateAddPeer /\ Rest
  \/ CreateSetPath /\ Rest
  \/ ReqReturn /\ Rest

SpecCreate == Init /\ [][NextCreate]_vars

(***************************************************************************)
(* A second sync_wireguard_status request served while the first is in     *)
(* flight (two clients' 30-second timers, or a timer and a button): the    *)
(* same handler, its position and locals held in req.                      *)
(***************************************************************************)
OtherSyncGetStatus ==
  /\ req.pc = "idle"
  /\ \E result \in StatusCommand(wg, clock) :
       req' = [ pc |-> "sync_select_server", op |-> "sync_wireguard_status",
                cmd |-> Outcome(result),
                wgStatus |-> getWireGuardStatus(result, clock),
                existingServer |-> Null, dbPeers |-> <<>>, i |-> 1,
                updatedCount |-> 0, persisted |-> {}, response |-> NoResponse ]
  /\ UNCHANGED <<clock, wg, peers, server, files, nextId, sync, last>>

OtherSyncSelectServer ==
  /\ req.pc = "sync_select_server"
  /\ \/ /\ DOMAIN server = {}
        /\ req' = [req EXCEPT !.pc = "sync_select_peers", !.existingServer = Null]
     \/ \E id \in DOMAIN server :
          req' = [req EXCEPT !.pc = "sync_update_server", !.existingServer = Some(id)]
  /\ UNCHANGED <<clock, wg, peers, server, files, nextId, sync, last>>

OtherSyncUpdateServer ==
  /\ req.pc = "sync_update_server"
  /\ server' = UpdateById(server, req.existingServer[1], ServerUpdateData(req.wgStatus))
  /\ req' = [req EXCEPT !.pc = "sync_select_peers"]
  /\ UNCHANGED <<clock, wg, peers, files, nextId, sync, last>>

OtherSyncSelectPeers ==
  /\ req.pc = "sync_select_peers"
  /\ \/ req' = [req EXCEPT !.pc = "sync_update_peer",
                           !.dbPeers = RowsFrom(peers, 1, {"public_key", "name"}),
                           !.i = 1]
     \/ req' = [req EXCEPT !.pc = "done",
                           !.response = [status |-> 500, error |-> "Failed to fetch peers"]]
  /\ UNCHANGED <<clock, wg, peers, server, files, nextId, sync, last>>

OtherSyncUpdatePeer ==
  /\ req.pc = "sync_update_peer"
  /\ req.i <= Len(req.dbPeers)
  /\ LET dbPeer == req.dbPeers[req.i]
     IN \E outcome \in StoreOutcomes :
          /\ peers' = IF outcome = "ok"
                      THEN UpdateById(peers, dbPeer.id, UpdateData(req.wgStatus, dbPeer))
                      ELSE peers
          /\ req' = [req EXCEPT
                       !.i = @ + 1,
                       !.updatedCount = IF outcome = "throws" THEN @ ELSE @ + 1,
                       !.persisted = IF outcome = "ok" /\ dbPeer.id \in DOMAIN peers
                                     THEN @ \cup {dbPeer.id} ELSE @]
  /\ last' = NoLast
  /\ UNCHANGED <<clock, wg, server, files, nextId, sync>>

OtherSyncRespond ==
  /\ req.pc = "sync_update_peer"
  /\ req.i > Len(req.dbPeers)
  /\ req' = [req EXCEPT !.pc = "done",
                        !.response = [status |-> 200, success |-> TRUE,
                                      interface |-> req.wgStatus.interface,
                                      peersUpdated |-> req.updatedCount]]
  /\ UNCHANGED <<clock, wg, peers, server, files, nextId, sync, last>>

\* Two sync passes, their steps interleaved
NextTwoSyncs ==
  \/ Accept /\ SyncGetStatus
  \/ Accept /\ OtherSyncGetStatus
  \/ SyncSelectServer /\ Rest
  \/ SyncUpdateServer /\ Rest
  \/ SyncSelectPeers /\ Rest
  \/ SyncUpdatePeer /\ Rest
  \/ SyncRespond /\ Rest
  \/ SyncReturn /\ Rest
  \/ OtherSyncSelectServer /\ Rest
  \/ OtherSyncUpdateServer /\ Rest
  \/ OtherSyncSelectPeers /\ Rest
  \/ OtherSyncUpdatePeer /\ Rest
  \/ OtherSyncRespond /\ Rest
  \/ ReqReturn /\ Rest

\* the seeded row and a row whose create_peer went through, both keys
\* configured on the interface, neither peer connected yet
InitTwoSyncs ==
  /\ clock = 1000
  /\ wg = addPeerToInterface([up |-> TRUE,
                              peers |-> ("k1" :> FreshLivePeer("10.7.0.2/32"))],
                             CreatedPeer(2))
  /\ peers = PeersTable(2)
  /\ nextId = 3
  /\ files = {CreatedPeer(2).config_file_path[1]}
  /\ server = ("s1" :> SeedServer)
  /\ sync = SyncIdle
  /\ req = ReqIdle
  /\ last = NoLast
  /\ served = 0
  /\ call = NoCall

SpecTwoSyncs == InitTwoSyncs /\ [][NextTwoSyncs]_vars

(***************************************************************************)
(* The functions on their own: the fallback snapshot asked for at several  *)
(* times, and the two handshake functions given the texts wg can print     *)
(* and the texts the parsers' patterns are written for.                    *)
(***************************************************************************)
\* the handshake texts: what wg prints for each age, a single seconds or minutes
\* clause, the example of the parser's comment, and texts without any clause
HandshakeTexts ==
  { PrettyTime(age) : age \in 0..MaxAge }
  \cup { << Num(n), Word(IF n = 1 THEN "second" ELSE "seconds"), Word("ago") >> :
           n \in 1..MaxAge }
  \cup { << Num(n), Word(IF n = 1 THEN "minute" ELSE "minutes"), Word("ago") >> :
           n \in 1..(MaxAge \div 60) }
  \cup { PrettyTime(3600 + 21 * 60 + 2), PrettyTime(2 * 86400 + 3600),
         << Word("never") >>, << Word("Never") >>, << Word("(none)") >>,
         << Num(5), Word("weeks"), Word("ago") >> }

\* the fallback snapshot of the call before, for a later one to be compared with
Earlier == IF call.fn = "getMockWireGuardStatus" THEN Some(call.result) ELSE Null

CallMock ==
  /\ call' = [ fn |-> "getMockWireGuardStatus", at |-> clock,
               result |-> getMockWireGuardStatus(clock), earlier |-> Earlier ]
  /\ UNCHANGED <<clock, wg, peers, server, files, nextId, sync, req, last, served>>

\* what the parser does with the text of a "latest handshake:" line
CallHandshake(handshakeText) ==
  /\ call' = [ fn |-> "handshake", text |-> handshakeText, at |-> clock,
               lastHandshake |-> parseHandshakeTime(handshakeText, clock),
               recent |-> isRecentHandshake(handshakeText),
               earlier |-> Earlier ]
  /\ UNCHANGED <<clock, wg, peers, server, files, nextId, sync, req, last, served>>

NextCalls ==
  \/ CallMock
  \/ \E handshakeText \in HandshakeTexts : CallHandshake(handshakeText)
  \/ Tick /\ Rest

\* no tables, no requests
InitCalls ==
  /\ Init
  /\ nextId = 1
  /\ DOMAIN server = {}

SpecCalls == InitCalls /\ [][NextCalls]_vars

(***************************************************************************)
(* parseWireGuardOutput on its own, given every report of up to MaxLines   *)
(* lines, the report growing by a line at each step.                       *)
(***************************************************************************)
\* the lines a report is made of
ParserLines ==
  { [label |-> "interface", value |-> "wg0"],
    [label |-> "public key", value |-> ServerKey],
    [label |-> "public key", value |-> "k2"],
    [label |-> "listening port", value |-> 51820],
    [label |-> "peer", value |-> "k1"],
    [label |-> "peer", value |-> "k2"],
    [label |-> "endpoint", value |-> "198.51.100.7:51820"],
    [label |-> "allowed ips", value |-> "10.7.0.2/32"],
    [label |-> "latest handshake", value |-> PrettyTime(90)],
    [label |-> "latest handshake", value |-> PrettyTime(3600)],
    [label |-> "transfer", value |-> TransferTexts(1)] }

\* the report parsed so far
Output == IF call.fn = "parseWireGuardOutput" THEN call.output ELSE <<>>

CallParseLine(line) ==
  /\ Len(Output) < MaxLines
  /\ call' = [ fn |-> "parseWireGuardOutput", output |-> Append(Output, line),
               at |-> clock,
               result |-> parseWireGuardOutput(Append(Output, line), clock),
               earlier |-> Null ]
  /\ UNCHANGED <<clock, wg, peers, server, files, nextId, sync, req, last, served>>

NextParser == \E line \in ParserLines : CallParseLine(line)

SpecParser == InitCalls /\ [][NextParser]_vars

(***************************************************************************)
(* parseTransferAmount on its own, called once with any amount of up to    *)
(* MaxWhole units with none, a quarter or 99 hundredths more, in any unit. *)
(***************************************************************************)
TransferUnits ==
  {"B", "KiB", "MiB", "GiB", "TiB", "KB", "MB", "GB", "TB", "iB", "bytes"}

CallParseTransferAmount(transferText) ==
  /\ call' = [ fn |-> "parseTransferAmount", text |-> transferText,
               result |-> parseTransferAmountWide(transferText), earlier |-> Null ]
  /\ UNCHANGED <<clock, wg, peers, server, files, nextId, sync, req, last, served>>

NextTransfer ==
  /\ call.fn = "none"
  /\ \E whole \in 0..MaxWhole, hundredths \in {0, 25, 99}, word \in TransferUnits :
       CallParseTransferAmount([unit |-> word, value100 |-> 100 * whole + hundredths])

SpecTransfer == InitCalls /\ [][NextTransfer]_vars

(***************************************************************************)
(* Properties of the reconciliation pass.                                  *)
(***************************************************************************)
\* a step of syncWireGuardStatus
SyncStep ==
  \/ SyncGetStatus
  \/ SyncSelectServer
  \/ SyncUpdateServer
  \/ SyncSelectPeers
  \/ SyncUpdatePeer
  \/ SyncRespond
  \/ SyncReturn

\* the ids of the rows a pass loaded
Loaded(s) == { s.dbPeers[j].id : j \in 1..Len(s.dbPeers) }

\* C1: after a sync pass all of whose per-peer writes were persisted, every
\* record's reconciliation fields are determined by the snapshot alone: a record
\* whose public key the snapshot lists has the listed peer's status, handshake
\* time, transfer counters and endpoint (a value the listed peer does not carry
\* is stored as null, a counter as 0); a record the snapshot does not list is
\* disconnected with a null handshake time and both counters 0.
C1_FieldsFromSnapshot ==
  (sync.pc = "done" /\ AllPersisted(sync)) =>
    \A id \in Loaded(sync) :
      LET row == peers[id]
          live == sync.wgStatus.peers
          key == row.public_key
      IN IF key \in DOMAIN live
         THEN /\ row.status = live[key].status
              /\ row.last_handshake =
                   (IF Has(live[key], "lastHandshake") THEN live[key].lastHandshake ELSE Null)
              /\ row.transfer_rx =
                   (IF Has(live[key], "transferRx") THEN live[key].transferRx ELSE 0)
              /\ row.transfer_tx =
                   (IF Has(live[key], "transferTx") THEN live[key].transferTx ELSE 0)
              /\ row.endpoint =
                   (IF Has(live[key], "endpoint") THEN Some(live[key].endpoint) ELSE Null)
         ELSE /\ row.status = "disconnected"
              /\ row.last_handshake = Null
              /\ row.transfer_rx = 0
              /\ row.transfer_tx = 0

\* a pass has written a listed peer's handshake time and counters into one
\* record and has zeroed another whose key the snapshot does not list
C1_Witness ==
  /\ sync.pc = "done"
  /\ AllPersisted(sync)
  /\ \E id \in Loaded(sync) :
       /\ peers[id].public_key \in DOMAIN sync.wgStatus.peers
       /\ peers[id].last_handshake # Null
       /\ peers[id].transfer_rx > 0
  /\ \E id \in Loaded(sync) :
       /\ peers[id].public_key \notin DOMAIN sync.wgStatus.peers
       /\ peers[id].status = "disconnected"

C3_CountsPersisted ==
  (sync.pc = "done" /\ sync.response.status = 200) =>
    sync.response.peersUpdated = Cardinality(sync.persisted)

\* C4: no step of a sync pass, however its steps interleave with those of a
\* create or a delete, adds a row to wireguard_peers or removes one: a live peer
\* no record matches creates none, and a record deleted after the pass loaded
\* the peer list is not there again when the pass writes to it and finishes.
C4_SyncNeitherInsertsNorDeletes ==
  [][SyncStep => DOMAIN peers' = DOMAIN peers]_vars

\* a pass has finished after writing to a row that a delete removed once the
\* pass had loaded it, with a peer on the interface that no record matches
C4_Witness ==
  /\ sync.pc = "done"
  /\ sync.missed # {}
  /\ sync.missed \cap DOMAIN peers = {}
  /\ \E key \in DOMAIN sync.wgStatus.peers :
       \A id \in DOMAIN peers : peers[id].public_key # key

\* C5: a step of a sync pass leaves the owner, name, public key, private key,
\* allowed IPs, keepalive and config file path of every record as they were.
C5_SyncKeepsIdentity ==
  [][SyncStep =>
       \A id \in DOMAIN peers \cap DOMAIN peers' :
         Restrict(peers'[id], IdentityColumns) = Restrict(peers[id], IdentityColumns)]_vars

\* a pass has persisted the counters of a live peer into a record that has a
\* config file path, and the reconciliation fields of another
C5_Witness ==
  /\ sync.pc = "done"
  /\ \E id \in sync.persisted : peers[id].transfer_tx > 0
  /\ \E id \in sync.persisted : peers[id].config_file_path # Null

\* the fallback snapshot, whatever the time it was built at
IsFallback(snapshot) ==
  /\ snapshot.interface = Some([name |-> "wg0", publicKey |-> ServerKey, listenPort |-> 51820])
  /\ DOMAIN snapshot.peers = {"mock_peer_key_1", "mock_peer_key_2"}

\* C6: when the status command exits non-zero or throws, the pass (or the
\* get_peer_status request) goes on with the fallback snapshot, and the response
\* it ends with is a success or an error of the record store, never one of the
\* command.
C6_FallbackNotPropagated ==
  /\ (sync.pc # "idle" /\ sync.cmd \in {"nonzero", "throws"}) =>
       /\ IsFallback(sync.wgStatus)
       /\ sync.pc = "done" =>
            \/ sync.response.status = 200 /\ sync.response.success
            \/ sync.response.status = 500 /\ sync.response.error = "Failed to fetch peers"
  /\ (Has(req, "cmd") /\ req.cmd \in {"nonzero", "throws"}) =>
       /\ IsFallback(req.wgStatus)
       /\ req.pc = "done" =>
            \/ req.response.status = 200
            \/ /\ req.response.status = 500
               /\ req.response.error = "Failed to update peer status"

\* a pass whose status command failed on a missing interface has answered with
\* success
C6_Witness ==
  /\ ~wg.up
  /\ sync.pc = "done"
  /\ sync.cmd = "nonzero"
  /\ sync.response.status = 200
  /\ sync.persisted # {}

C9_ServerSingleton ==
  (sync.pc = "done" /\ sync.response.status = 200) =>
    Cardinality(DOMAIN server) = 1

\* the unit of a clause's second word, which may carry a plural s and a comma
ClauseUnit(w) ==
  CASE w \in {"second", "seconds", "second,", "seconds,"} -> "second"
    [] w \in {"minute", "minutes", "minute,", "minutes,"} -> "minute"
    [] w \in {"hour", "hours", "hour,", "hours,"} -> "hour"
    [] w \in {"day", "days", "day,", "days,"} -> "day"
    [] OTHER -> "none"

\* a text of one or more <int> <unit> clauses ending in "ago"
IsAgoText(text) ==
  /\ Len(text) >= 3
  /\ Len(text) % 2 = 1
  /\ text[Len(text)].w = "ago"
  /\ \A i \in 1..(Len(text) - 1) :
       IF i % 2 = 1 THEN IsNum(text[i])
       ELSE ~IsNum(text[i]) /\ ClauseUnit(text[i].w) # "none"

\* the seconds all the clauses of such a text add up to
ClauseSum(text) ==
  LET firsts == { i \in 1..(Len(text) - 1) : i % 2 = 1 }
      secs == [i \in firsts |-> text[i].n * SecondsPerUnit(ClauseUnit(text[i + 1].w))]
  IN SumOver(secs, firsts)

\* C10 as stated: for a text of clauses ending in "ago" isRecentHandshake is
\* true exactly when the clauses add up to at most 180 seconds; for any other
\* text it is false.
C10_RecentIffWithin180 ==
  call.fn = "handshake" =>
    IF IsAgoText(call.text)
    THEN call.recent <=> (ClauseSum(call.text) <= 180)
    ELSE ~call.recent

\* the rank of a unit: days before hours before minutes before seconds
UnitRank(unit) ==
  CASE unit = "day" -> 4
    [] unit = "hour" -> 3
    [] unit = "minute" -> 2
    [] unit = "second" -> 1
    [] OTHER -> 0

\* a text '<d> days, <h> hours, <m> minutes, <s> seconds ago', any clauses left out
IsDurationText(text) ==
  /\ IsAgoText(text)
  /\ \A i \in 1..(Len(text) - 1) :
       (i % 2 = 0 /\ i + 2 <= Len(text) - 1) =>
         /\ UnitRank(ClauseUnit(text[i].w)) > UnitRank(ClauseUnit(text[i + 2].w))
         /\ text[i].w \notin {"second", "seconds", "minute", "minutes",
                              "hour", "hours", "day", "days"}

\* C11 as stated: for a text of day, hour, minute and second clauses joined by
\* commas, with "ago" once at the end, parseHandshakeTime returns the time of
\* the call less the seconds all the clauses add up to.
C11_ParserSumsEveryClause ==
  (call.fn = "handshake" /\ IsDurationText(call.text)) =>
    call.lastHandshake = Some(call.at - ClauseSum(call.text))

(***************************************************************************)
(* Properties of the status parser.                                        *)
(***************************************************************************)
Max(S) == CHOOSE x \in S : \A y \in S : x >= y

\* where the 'peer:' lines of a report are
PeerLines(output) == { i \in 1..Len(output) : output[i].label = "peer" }

\* the last line of the block that the 'peer:' line i opens
BlockEnd(output, i) ==
  LET later == { j \in PeerLines(output) : j > i }
  IN IF later = {} THEN Len(output) ELSE Min(later) - 1

\* the lines of that block with a given label
BlockLines(output, i, label) ==
  { j \in i..BlockEnd(output, i) : output[j].label = label }

\* the key the block ends with: its last 'public key:' line's, else its 'peer:' line's
FinalKey(output, i) ==
  IF BlockLines(output, i, "public key") = {} THEN output[i].value
  ELSE output[Max(BlockLines(output, i, "public key"))].value

\* the entry a block stands for, read off its own lines
BlockEntry(output, i, now) ==
  LET has(label) == BlockLines(output, i, label) # {}
      val(label) == output[Max(BlockLines(output, i, label))].value
  IN [ publicKey |-> FinalKey(output, i),
       status |-> IF has("latest handshake")
                  THEN (IF isRecentHandshake(val("latest handshake"))
                        THEN "connected" ELSE "disconnected")
                  ELSE "connected" ]
     @@ (IF has("endpoint") THEN [endpoint |-> val("endpoint")] ELSE EmptyObject)
     @@ (IF has("allowed ips") THEN [allowedIps |-> val("allowed ips")] ELSE EmptyObject)
     @@ (IF has("latest handshake")
         THEN [lastHandshake |-> parseHandshakeTime(val("latest handshake"), now)]
         ELSE EmptyObject)
     @@ (IF has("transfer")
         THEN [ transferRx |-> parseTransferAmount(val("transfer")[1]),
                transferTx |-> parseTransferAmount(val("transfer")[2]) ]
         ELSE EmptyObject)

\* C12 as stated: when the 'peer:' lines of the input carry pairwise distinct
\* keys, the snapshot has as many entries as there are 'peer:' lines, each
\* under the key that is its own publicKey.
C12_OneEntryPerPeerLine ==
  LET output == call.output
  IN (/\ call.fn = "parseWireGuardOutput"
      /\ \A i, j \in PeerLines(output) : i # j => output[i].value # output[j].value)
     => /\ Cardinality(DOMAIN call.result.peers) = Cardinality(PeerLines(output))
        /\ \A key \in DOMAIN call.result.peers : call.result.peers[key].publicKey = key

\* C12, amended: when the blocks of the input end with pairwise distinct keys
\* (a block's key being that of its last 'public key:' line, or of its 'peer:'
\* line when it has none), the snapshot has as many entries as there are 'peer:'
\* lines, each under its block's key and with the endpoint, allowed IPs,
\* handshake time, status and counters of the block's own lines; lines before
\* the first 'peer:' line give no entry and change none.
C12_OneEntryPerBlock ==
  LET output == call.output
  IN (/\ call.fn = "parseWireGuardOutput"
      /\ \A i, j \in PeerLines(output) :
           i # j => FinalKey(output, i) # FinalKey(output, j))
     => /\ Cardinality(DOMAIN call.result.peers) = Cardinality(PeerLines(output))
        /\ \A i \in PeerLines(output) :
             /\ FinalKey(output, i) \in DOMAIN call.result.peers
             /\ call.result.peers[FinalKey(output, i)] = BlockEntry(output, i, call.at)

\* a report of two blocks, with an attribute line before the first and a
\* transfer line in one of them
C12_Witness ==
  /\ call.fn = "parseWireGuardOutput"
  /\ Cardinality(PeerLines(call.output)) = 2
  /\ call.output[1].label = "endpoint"
  /\ Cardinality(DOMAIN call.result.peers) = 2
  /\ \E key \in DOMAIN call.result.peers : Has(call.result.peers[key], "transferRx")

\* the report without its last line, and that line
Before(output) == SubSeq(output, 1, Len(output) - 1)
LastLine(output) == output[Len(output)]

BinaryUnits == <<"KiB", "MiB", "GiB", "TiB">>
DecimalUnits == <<"KB", "MB", "GB", "TB">>

\* w * base^k
RECURSIVE Scaled(_, _, _)
Scaled(w, base, k) == IF k = 0 THEN w ELSE Scaled(WideTimes(w, base), base, k - 1)

\* C14: for a whole-number value v the transfer parser returns v*1024^k for
\* KiB, MiB, GiB, TiB (k = 1..4), v*1000^k for KB, MB, GB, TB and v for B, so
\* for v > 0 the results for the binary and the decimal unit of one rank
\* differ; '500 KB' gives 500000 and '500 KiB' 512000.
C14_UnitsNotConflated ==
  (call.fn = "parseTransferAmount" /\ call.text.value100 % 100 = 0)
  => LET v == call.text.value100 \div 100
         unit == call.text.unit
         other(u) == parseTransferAmountWide([call.text EXCEPT !.unit = u])
     IN /\ \A k \in 1..4 :
             /\ unit = BinaryUnits[k]
                => /\ call.result = Scaled(WideOf(v), 1024, k)
                   /\ v > 0 => call.result # other(DecimalUnits[k])
             /\ unit = DecimalUnits[k]
                => /\ call.result = Scaled(WideOf(v), 1000, k)
                   /\ v > 0 => call.result # other(BinaryUnits[k])
        /\ unit = "B" => call.result = WideOf(v)
        /\ (v = 500 /\ unit = "KB") => Narrow(call.result) = 500000
        /\ (v = 500 /\ unit = "KiB") => Narrow(call.result) = 512000

\* 1023 TB parsed: an amount of three base-10^6 digits, 1023 * 10^12
C14_Witness ==
  /\ call.fn = "parseTransferAmount"
  /\ call.text = [unit |-> "TB", value100 |-> 102300]
  /\ call.result = <<0, 0, 1023>>
  /\ parseTransferAmountWide([unit |-> "TiB", value100 |-> 102300]) = <<214848, 800395, 1124>>

(***************************************************************************)
(* Properties of create_peer and delete_peer.                              *)
(***************************************************************************)
\* the request handler takes a step
ReqStep == req' # req

\* C15: delete_peer for an id that matches no row fails with 'Peer not found'
\* and has no side effect: the lookup answers at once, having changed no row,
\* issued no command to the interface and removed no file, and the handler
\* does nothing after it.
C15_DeleteUnknownHasNoEffect ==
  [][ /\ \A id \in PeerIds :
           (/\ req.pc = "idle"
            /\ req'.pc # "idle"
            /\ req'.op = "delete_peer"
            /\ req'.id = id
            /\ id \notin DOMAIN peers)
           => /\ req'.pc = "done"
              /\ req'.response = [status |-> 500, error |-> "Peer not found"]
              /\ req'.log = <<>>
              /\ UNCHANGED <<peers, wg, files, server>>
      /\ (/\ ReqStep
          /\ req.pc = "done"
          /\ req.op = "delete_peer"
          /\ req.log = <<>>)
         => /\ req' = ReqIdle
            /\ UNCHANGED <<peers, wg, files, server>> ]_vars

\* a delete of an id no row has was answered, with a row, two configured
\* peers and nothing else in flight
C15_Witness ==
  /\ req.pc = "done"
  /\ req.op = "delete_peer"
  /\ req.id \notin DOMAIN peers
  /\ req.response = [status |-> 500, error |-> "Peer not found"]
  /\ DOMAIN peers # {}
  /\ Cardinality(DOMAIN wg.peers) = 2
  /\ sync.pc = "idle"

\* the steps a delete has attempted, in order
Attempted(r) == [i \in 1..Len(r.log) |-> r.log[i].step]

\* C16: delete_peer of an existing row takes its steps in the order remove
\* from the interface, remove the config file (when the row has a path),
\* delete the row; a failure of either of the first two is swallowed: the
\* handler goes on to the next step, the row stays until the last step, and
\* the delete fails only when the store does.
C16_DeleteBestEffortInOrder ==
  /\ [](req.pc \in {"delete_live", "delete_file", "delete_row"} => req.id \in DOMAIN peers)
  /\ []((req.pc = "done" /\ req.op = "delete_peer")
        => \/ /\ req.response = [status |-> 200, success |-> TRUE]
              /\ req.id \notin DOMAIN peers
              /\ Attempted(req) \in { <<"remove peer", "remove file", "delete row">>,
                                      <<"remove peer", "delete row">> }
           \/ /\ req.response = [status |-> 500, error |-> "Failed to delete peer"]
              /\ req.log[Len(req.log)] = [step |-> "delete row", ok |-> FALSE]
           \/ /\ req.response = [status |-> 500, error |-> "Peer not found"]
              /\ req.log = <<>>)
  /\ [][ /\ (ReqStep /\ req.pc = "delete_live")
            => /\ req'.pc = "delete_file"
               /\ Attempted(req') = <<"remove peer">>
               /\ peers' = peers
         /\ (ReqStep /\ req.pc = "delete_file")
            => /\ req'.pc = "delete_row"
               /\ Attempted(req') = IF req.peer.config_file_path # Null
                                     THEN <<"remove peer", "remove file">>
                                     ELSE <<"remove peer">>
               /\ peers' = peers
         /\ (ReqStep /\ req.pc = "delete_row")
            => /\ req'.pc = "done"
               /\ \/ peers' = DeleteById(peers, req.id)
                  \/ peers' = peers /\ req'.response.status = 500 ]_vars

\* a delete succeeded though the remove-peer command and the removal of the
\* file both failed: the row is gone, the key is still configured and the
\* file is still there
C16_Witness ==
  /\ req.pc = "done"
  /\ req.op = "delete_peer"
  /\ req.response.status = 200
  /\ req.log = << [step |-> "remove peer", ok |-> FALSE],
                  [step |-> "remove file", ok |-> FALSE],
                  [step |-> "delete row", ok |-> TRUE] >>
  /\ req.id = 2
  /\ 2 \notin DOMAIN peers
  /\ "k2" \in DOMAIN wg.peers
  /\ ConfigPath("alice") \in files

\* the status columns of a row that was never reconciled
NeverConnected(row) ==
  /\ row.status = "never_connected"
  /\ row.transfer_rx = 0
  /\ row.transfer_tx = 0

\* C17: create_peer succeeds whether or not the add-peer command succeeds.
\* After the insert no step of the handler removes a row or changes a row's
\* status columns, the add-peer step goes on to the next step whatever its
\* outcome, and the last step answers 200 with the inserted peer; the peer
\* returned, and the row as long as no sync pass was started, have status
\* never_connected and both counters 0.
C17_CreateSurvivesFailedMirror ==
  /\ []((req.pc = "done" /\ req.op = "create_peer" /\ req.response.status = 200)
        => /\ NeverConnected(req.response.peer)
           /\ req.response.peer.id \in DOMAIN peers
           /\ Attempted(req) = <<"write file", "add peer">>
           /\ served = 1 => NeverConnected(peers[req.response.peer.id]))
  /\ [][ (ReqStep /\ req.pc \in {"create_config", "create_file", "create_add", "create_path"})
          => /\ DOMAIN peers' = DOMAIN peers
             /\ \A id \in DOMAIN peers :
                  Restrict(peers'[id], ReconColumns) = Restrict(peers[id], ReconColumns)
             /\ req.pc = "create_add" => req'.pc = "create_path"
             /\ req.pc = "create_path"
                => /\ req'.pc = "done"
                   /\ req'.response = [status |-> 200, peer |-> req.peer] ]_vars

\* a create answered 200 though its add-peer command failed: the key is not
\* configured on the interface, the row is in the table, never connected
C17_Witness ==
  /\ req.pc = "done"
  /\ req.op = "create_peer"
  /\ req.response.status = 200
  /\ req.log[2] = [step |-> "add peer", ok |-> FALSE]
  /\ req.response.peer.public_key \notin DOMAIN wg.peers
  /\ req.response.peer.id \in DOMAIN peers
  /\ NeverConnected(peers[req.response.peer.id])
  /\ wg.up

\* the texts that are address ranges, among those a create_peer body carries
AddressRanges == {"10.7.0.3/32", "10.7.0.4/32"}

\* a create_peer body with a name and with allowedIps that are an address range
Complete(params) ==
  /\ Has(params, "name")
  /\ Has(params, "allowedIps")
  /\ params.allowedIps \in AddressRanges

\* C18: a create_peer request whose name is missing or whose allowedIps are
\* missing or malformed fails with an error and leaves the table, the files
\* and the interface unchanged.
C18_CreateRejectsIncomplete ==
  [][ (/\ req.pc = "idle"
       /\ req'.pc # "idle"
       /\ req'.op = "create_peer"
       /\ ~Complete(req'.params))
      => /\ req'.pc = "done"
         /\ req'.response.status = 500
         /\ UNCHANGED <<peers, files, wg>> ]_vars

(***************************************************************************)
(* Properties of the requests taken together.                              *)
(***************************************************************************)
\* the rows other than id that have this public key
RowsWithKey(table, publicKey, id) ==
  { other \in DOMAIN table \ {id} : table[other].public_key = publicKey }

\* C19: no two rows of wireguard_peers have the same public_key, in every
\* state any sequence of requests reaches; a create_peer whose generated key
\* a row already has, and an update_peer to a key another row has, fail and
\* leave the table unchanged.
C19_PublicKeyUnique ==
  /\ [](\A a, b \in DOMAIN peers : a # b => peers[a].public_key # peers[b].public_key)
  /\ [][ /\ (/\ req.pc = "idle"
             /\ req'.pc = "done"
             /\ req'.op = "create_peer"
             /\ RowsWithKey(peers, req'.publicKey, 0) # {})
            => /\ req'.response.status = 500
               /\ peers' = peers
         /\ (/\ req.pc = "idle"
             /\ req'.pc = "done"
             /\ req'.op = "update_peer"
             /\ Has(req'.params, "public_key")
             /\ RowsWithKey(peers, req'.params.public_key, req'.id) # {})
            => /\ req'.response.status = 500
               /\ peers' = peers ]_vars

\* an update of row 2's key to the key of row 1 was refused: both rows are
\* there, with their keys, and the caller owns row 2
C19_Witness ==
  /\ req.pc = "done"
  /\ req.op = "update_peer"
  /\ req.id = 2
  /\ req.params = [public_key |-> "k1"]
  /\ req.response.status = 500
  /\ DOMAIN peers = {1, 2}
  /\ peers[1].public_key = "k1"
  /\ peers[2].public_key = "k2"
  /\ served = 1

\* the action of the request whose handler takes this step
ReqOp == IF req.pc = "idle" THEN req'.op ELSE req.op

\* C20: only create_peer and delete_peer touch the live interface: no step
\* of a sync pass, of update_peer, of get_peer_status or of
\* update_server_status changes the interface, so an update of a row is not
\* mirrored and a sync pass does not configure a peer whose add-peer command
\* failed.
C20_OnlyCreateAndDeleteTouchInterface ==
  [][ (\/ sync' # sync
       \/ /\ ReqStep
          /\ ReqOp \in {"update_peer", "get_peer_status", "update_server_status"})
      => wg' = wg ]_vars

\* a sync pass ended after an update changed the address range of a row
\* whose key is not configured: the row is marked disconnected, its key is
\* still not on the interface, and the interface has the peers it started with
C20_Witness ==
  /\ sync.pc = "done"
  /\ sync.response.status = 200
  /\ served = 2
  /\ 2 \in DOMAIN peers
  /\ peers[2].allowed_ips = "10.7.0.5/32"
  /\ peers[2].status = "disconnected"
  /\ peers[2].public_key \notin DOMAIN wg.peers
  /\ DOMAIN wg.peers = {"k1", "kx"}

\* the user whose request the handler is serving at this step
Caller == IF req.pc = "idle" THEN req'.userId ELSE req.userId

\* C21: no step of an update_peer, delete_peer or get_peer_status request
\* changes or removes a row owned by a user other than the caller, removes
\* that row's config file or takes its key off the interface.
C21_OwnerIsolation ==
  [][ (/\ ReqStep
       /\ req.pc # "done"
       /\ ReqOp \in {"update_peer", "delete_peer", "get_peer_status"})
      => \A id \in DOMAIN peers :
           peers[id].user_id # Caller
           => /\ id \in DOMAIN peers'
              /\ peers'[id] = peers[id]
              /\ (peers[id].config_file_path # Null
                  /\ peers[id].config_file_path[1] \in files)
                 => peers[id].config_file_path[1] \in files'
              /\ peers[id].public_key \in DOMAIN wg.peers
                 => peers[id].public_key \in DOMAIN wg'.peers ]_vars

(***************************************************************************)
(* Properties of sync passes that overlap.                                 *)
(***************************************************************************)
\* a pass that has ended with every row it loaded written
Finished(pass) ==
  /\ pass.pc = "done"
  /\ pass.response.status = 200
  /\ pass.persisted = { pass.dbPeers[j].id : j \in 1..Len(pass.dbPeers) }
  /\ pass.persisted = DOMAIN peers

\* every row has the status columns a pass with this snapshot writes
ReconciledFrom(wgStatus) ==
  \A id \in DOMAIN peers :
    Restrict(peers[id], ReconColumns) = UpdateData(wgStatus, peers[id])

\* C22: when two sync passes with different snapshots have both finished,
\* all their writes done, the status columns of the rows together are what
\* one of the two snapshots gives, never some rows from one and some from
\* the other.
C22_ConcurrentSyncsSerializable ==
  (/\ Finished(sync)
   /\ req.pc = "done"
   /\ req.op = "sync_wireguard_status"
   /\ Finished(req)
   /\ sync.wgStatus # req.wgStatus)
  => \/ ReconciledFrom(sync.wgStatus)
     \/ ReconciledFrom(req.wgStatus)

(***************************************************************************)
(* Further properties of the reconciliation pass.                          *)
(***************************************************************************)
\* C23: when the interface is down while a sync pass runs, the pass's
\* snapshot has no interface, and once the pass has written the server row
\* that row's status is stopped.
C23_DownIsStopped ==
  (~wg.up /\ sync.pc # "idle")
  => /\ sync.wgStatus.interface = Null
     /\ (sync.pc \in {"select_peers", "update_peer", "done"} /\ sync.existingServer # Null)
        => server[sync.existingServer[1]].status = "stopped"

\* C24: from one sync pass to the next, the interface up and not restarted
\* and the peers' live counters not decreased in between, the persisted
\* transfer_rx and transfer_tx of a row whose key is configured on the
\* interface do not decrease, whatever the status command did on the
\* second pass.
C24_CountersMonotonic ==
  (/\ last.valid
   /\ wg.up
   /\ sync.pc = "done"
   /\ AllPersisted(sync))
  => \A id \in DOMAIN peers :
       peers[id].public_key \in DOMAIN wg.peers
       => /\ peers[id].transfer_rx >= last.rows[id].transfer_rx
          /\ peers[id].transfer_tx >= last.rows[id].transfer_tx

(***************************************************************************)
(* Further properties of the status parser.                                *)
(***************************************************************************)
\* the block an entry of the snapshot comes from: the last that ends with its key
LastBlock(output, key) ==
  Max({ i \in PeerLines(output) : FinalKey(output, i) = key })

\* C25: a peer's status in the snapshot is decided by the 'latest
\* handshake:' lines of its block only: connected when the block has none
\* (and then the entry has no lastHandshake), otherwise connected if the text
\* of the last such line is recent and disconnected if it is not.
C25_StatusFromHandshakeLines ==
  call.fn = "parseWireGuardOutput"
  => \A key \in DOMAIN call.result.peers :
       LET i == LastBlock(call.output, key)
           handshakes == BlockLines(call.output, i, "latest handshake")
           entry == call.result.peers[key]
       IN IF handshakes = {}
          THEN entry.status = "connected" /\ ~Has(entry, "lastHandshake")
          ELSE /\ Has(entry, "lastHandshake")
               /\ entry.status = IF isRecentHandshake(call.output[Max(handshakes)].value)
                                 THEN "connected" ELSE "disconnected"

\* a peer whose last handshake was an hour ago is reported disconnected, and
\* one with an endpoint and no handshake line connected
C25_Witness ==
  /\ call.fn = "parseWireGuardOutput"
  /\ call.output = << [label |-> "peer", value |-> "k1"],
                      [label |-> "latest handshake", value |-> PrettyTime(3600)],
                      [label |-> "peer", value |-> "k2"],
                      [label |-> "endpoint", value |-> "198.51.100.7:51820"] >>
  /\ call.result.peers["k1"].status = "disconnected"
  /\ call.result.peers["k2"].status = "connected"
  /\ ~Has(call.result.peers["k2"], "lastHandshake")

(***************************************************************************)
(* Further properties of the requests taken together.                      *)
(***************************************************************************)
\* C26: after a sync pass all of whose writes succeeded every row has
\* status connected or disconnected, a row created never_connected included
\* even if its peer never completed a handshake; and no step of a sync pass
\* or of get_peer_status changes a status to never_connected.
C26_NeverConnectedDoesNotSurvive ==
  /\ []((sync.pc = "done" /\ AllPersisted(sync))
        => \A id \in DOMAIN peers : peers[id].status \in {"connected", "disconnected"})
  /\ [][ (\/ sync' # sync
           \/ (ReqStep /\ ReqOp = "get_peer_status"))
          => \A id \in DOMAIN peers :
               peers[id].status # "never_connected"
               => peers'[id].status # "never_connected" ]_vars

\* the first request is a sync pass; it found row 2, whose key is not on the
\* interface and which was never connected, and left it disconnected
C26_Witness ==
  /\ sync.pc = "done"
  /\ AllPersisted(sync)
  /\ served = 1
  /\ 2 \in DOMAIN peers
  /\ peers[2].public_key \notin DOMAIN wg.peers
  /\ peers[2].last_handshake = Null
  /\ peers[2].status = "disconnected"

\* C27: a get_peer_status that succeeds leaves the row's status,
\* last_handshake, transfer_rx, transfer_tx and endpoint as a sync pass with
\* the same snapshot would: as the pass's updateData for that row.
C27_StatusAgreesWithSync ==
  [][ (/\ ReqStep
       /\ req.pc = "status_update"
       /\ req'.response.status = 200)
      => Restrict(peers'[req.peerId], ReconColumns)
         = UpdateData(req.wgStatus, peers[req.peerId]) ]_vars

\* C28: a create request that ends in an error has added no row (the row it
\* inserted, if any, is gone when it returns) and has left the live
\* interface as it was.
C28_CreateAllOrNothing ==
  [][ (/\ ReqStep
       /\ ReqOp = "create_peer"
       /\ req'.pc = "done"
       /\ req'.response.status # 200)
      => /\ wg' = wg
         /\ IF req.pc = "idle"
            THEN peers' = peers
            ELSE req.peer.id \notin DOMAIN peers' ]_vars

\* C29: no two rows name the same config file: two distinct rows that have a
\* config_file_path have different ones.
C29_ConfigPathsDistinct ==
  \A a, b \in DOMAIN peers :
    (/\ a # b
     /\ peers[a].config_file_path # Null
     /\ peers[b].config_file_path # Null)
    => peers[a].config_file_path # peers[b].config_file_path

(***************************************************************************)
(* The keys of a snapshot.                                                 *)
(***************************************************************************)
\* the keys the blocks of a report end with
FinalKeys(output) == { FinalKey(output, i) : i \in PeerLines(output) }

\* every entry of a snapshot is under its own publicKey
KeyedByOwnKey(wgStatus) ==
  \A key \in DOMAIN wgStatus.peers : wgStatus.peers[key].publicKey = key

\* C30: a snapshot is keyed consistently.  The fallback's entries, and the
\* parser's, are each under the key that is their own publicKey; the parser's
\* keys are the keys its blocks end with (the last 'public key:' line's
\* where a block has one, else the 'peer:' line's), and the entry under a key
\* is that of the last block ending with it.
C30_SnapshotKeyedConsistently ==
  /\ KeyedByOwnKey(getMockWireGuardStatus(clock))
  /\ call.fn = "parseWireGuardOutput"
     => /\ KeyedByOwnKey(call.result)
        /\ DOMAIN call.result.peers = FinalKeys(call.output)
        /\ \A key \in DOMAIN call.result.peers :
             call.result.peers[key]
             = BlockEntry(call.output, LastBlock(call.output, key), call.at)

\* two blocks end with k2, the second by a 'public key:' line that replaces
\* k1: the one entry is the second block's, which has no endpoint
C30_Witness ==
  /\ call.fn = "parseWireGuardOutput"
  /\ call.output = << [label |-> "peer", value |-> "k2"],
                      [label |-> "endpoint", value |-> "198.51.100.7:51820"],
                      [label |-> "peer", value |-> "k1"],
                      [label |-> "public key", value |-> "k2"] >>
  /\ DOMAIN call.result.peers = {"k2"}
  /\ call.result.peers["k2"].publicKey = "k2"
  /\ ~Has(call.result.peers["k2"], "endpoint")

====
